---------------------------- MODULE Spec2Model ----------------------------
(***************************************************************************)
(* Signing service: the HTTP handlers of api/device.go over the in-memory  *)
(* repository (persistence/inmemory.go) and the Device of the domain       *)
(* package (domain/device.go, domain/device_methods.go).                   *)
(*                                                                         *)
(* Go strings and byte slices are sequences of byte values (0..255).       *)
(* Every handler runs in its own goroutine; a handler is a sequence of     *)
(* steps, one per lock operation or critical section, so that every        *)
(* interleaving the mutexes allow is a behaviour of the model.             *)
(***************************************************************************)
EXTENDS Integers, Sequences, FiniteSets, TLC

(***************************************************************************)
(* Bounds of the model.                                                    *)
(***************************************************************************)
\* Number of goroutines serving requests concurrently.
NumProcs == 2
\* Requests (handler invocations, and direct repository.Create calls of a
\* test's setup) started in one behaviour of the server.
MaxRequests == 3
\* The same, in the behaviours of one test: set-ups and signs only.
MaxChainRequests == 4
\* Direct method calls on a Device in one behaviour of a unit test.
MaxCalls == 3
\* SignTransaction requests on a server that holds two devices.
MaxParallelSigns == 2
\* Direct calls of the key accessors of a Device in one behaviour of their
\* unit tests.
MaxKeyCalls == 2
\* Direct calls of the repository in one behaviour of its unit tests.
MaxStoreCalls == 3
MaxFairRequests == 2

Procs == 1..NumProcs

(***************************************************************************)
(* Strings.                                                                *)
(***************************************************************************)
\* ""
EmptyString == <<>>

\* The byte '_' of the format string "%d_%s_%s".
Underscore == <<95>>

\* The decimal digit d as a byte ('0' is 48).
DigitChar(d) == 48 + d

RECURSIVE FormatNat(_)
\* strconv-style decimal formatting of a natural number, most significant
\* digit first, no leading zeros ("0" for zero).
FormatNat(n) ==
    IF n < 10 THEN <<DigitChar(n)>>
    ELSE FormatNat(n \div 10) \o <<DigitChar(n % 10)>>

\* The verb %d of fmt.Sprintf applied to an int.
FormatInt(n) == IF n < 0 THEN <<45>> \o FormatNat(0 - n) ELSE FormatNat(n)

\* The alphabet of base64.StdEncoding: A-Z a-z 0-9 + /
Base64Char(i) ==
    IF i < 26 THEN 65 + i
    ELSE IF i < 52 THEN 97 + (i - 26)
    ELSE IF i < 62 THEN 48 + (i - 52)
    ELSE IF i = 62 THEN 43
    ELSE 47

\* The padding character '=' of base64.StdEncoding.
Base64Pad == <<61>>

RECURSIVE Base64Encode(_)
\* base64.StdEncoding.EncodeToString: 3 bytes become 4 characters, the
\* last group is padded with '='.
Base64Encode(b) ==
    IF Len(b) = 0 THEN <<>>
    ELSE IF Len(b) = 1 THEN
        << Base64Char(b[1] \div 4), Base64Char((b[1] % 4) * 16) >>
            \o Base64Pad \o Base64Pad
    ELSE IF Len(b) = 2 THEN
        << Base64Char(b[1] \div 4),
           Base64Char((b[1] % 4) * 16 + (b[2] \div 16)),
           Base64Char((b[2] % 16) * 4) >> \o Base64Pad
    ELSE
        << Base64Char(b[1] \div 4),
           Base64Char((b[1] % 4) * 16 + (b[2] \div 16)),
           Base64Char((b[2] % 16) * 4 + (b[3] \div 64)),
           Base64Char(b[3] % 64) >> \o Base64Encode(SubSeq(b, 4, Len(b)))

\* fmt.Sprintf("%d_%s_%s", counter, data, last)
SprintfSecured(counter, data, last) ==
    FormatInt(counter) \o Underscore \o data \o Underscore \o last


\* The three segments of a secured string "<counter>_<data>_<last>": the
\* counter ends at the first '_' (decimal digits hold none) and the last
\* segment starts after the last '_' (the base64 alphabet holds none).
FirstUnderscore(s) ==
    IF \E i \in 1..Len(s) : s[i] = Underscore[1]
    THEN CHOOSE i \in 1..Len(s) :
            s[i] = Underscore[1] /\ \A j \in 1..(i - 1) : s[j] # Underscore[1]
    ELSE 0

LastUnderscore(s) ==
    IF \E i \in 1..Len(s) : s[i] = Underscore[1]
    THEN CHOOSE i \in 1..Len(s) :
            s[i] = Underscore[1] /\ \A j \in (i + 1)..Len(s) : s[j] # Underscore[1]
    ELSE 0

CounterSegment(s) == SubSeq(s, 1, FirstUnderscore(s) - 1)
DataSegment(s) == SubSeq(s, FirstUnderscore(s) + 1, LastUnderscore(s) - 1)
TrailingSegment(s) == SubSeq(s, LastUnderscore(s) + 1, Len(s))

RECURSIVE ParseNat(_)
\* The number a string of decimal digits denotes (-1 when it is not one).
ParseNat(s) ==
    IF Len(s) = 0 THEN -1
    ELSE LET d == s[Len(s)] - DigitChar(0) IN
         IF d < 0 \/ d > 9 THEN -1
         ELSE IF Len(s) = 1 THEN d
         ELSE LET hi == ParseNat(SubSeq(s, 1, Len(s) - 1)) IN
              IF hi < 0 THEN -1 ELSE 10 * hi + d

\* The counter value a secured string carries.
EmbeddedCounter(s) == ParseNat(CounterSegment(s))

(***************************************************************************)
(* Inputs.                                                                 *)
(***************************************************************************)
\* domain.AlgorithmRSA, domain.AlgorithmECDSA
AlgorithmRSA == "RSA"
AlgorithmECDSA == "ECDSA"
Algorithms == {AlgorithmRSA, AlgorithmECDSA}

\* The algorithm field of a CreateDevice request body: a supported tag, an
\* unsupported one, or "" (field missing: the binding fails).
RequestAlgorithms == Algorithms \cup {"INVALID", ""}

\* Device ids that clients name in requests: "X".
RequestIDs == { <<88>> }

\* The n-th id uuid.New().String() produces, "U1", "U2", ...: every call
\* returns an id not seen before.
GeneratedID(n) == <<85>> \o FormatNat(n)

AllIDs ==
    RequestIDs \cup { GeneratedID(n) : n \in 1..(MaxRequests + MaxChainRequests) }

\* label of a CreateDevice request: none.
Labels == { EmptyString }

\* data of a SignTransaction request: "a_b" ("" is a missing field).
Datas == { <<97, 95, 98>> }

\* The raw signatures a Signer can return (RSA-PSS and ECDSA are
\* randomized; two calls may or may not agree).
SignatureBytes == { <<1>>, <<255, 0, 16>> }

\* Dynamic types of the values held in Device.PublicKey / Device.PrivateKey.
RSAPrivate == "*rsa.PrivateKey"
ECDSAPrivate == "*ecdsa.PrivateKey"
RSAPublic == "*rsa.PublicKey"
ECDSAPublic == "*ecdsa.PublicKey"
NilKey == "nil"
\* The key pairs a test's setup hands to NewDevice.
SetupKeys ==
    { [pub |-> NilKey, priv |-> NilKey],
      [pub |-> RSAPublic, priv |-> RSAPrivate],
      [pub |-> ECDSAPublic, priv |-> ECDSAPrivate] }

(***************************************************************************)
(* State.                                                                  *)
(***************************************************************************)
VARIABLES
    devices,    \* InMemoryRepository.devices: id -> reference of a Device
    heap,       \* the Device structs, by reference (1..Len(heap))
    mu,         \* Device.mu of each Device: 0 (unlocked) or the holder
    repoMu,     \* InMemoryRepository.mu: [w: writer or 0, r: readers]
    pc,         \* where each goroutine stands
    req,        \* the request and the locals of each goroutine
    out,        \* the response the last step wrote, if it wrote one
    budget,     \* requests that may still start
    nuuid,      \* ids generated so far
    signLog,    \* history, per id: the SignTransactions on its device
    commits,    \* history, per Device: completed IncrementCounter calls
    lastCommit, \* history, per Device: the signature the last completed
                \* IncrementCounter was given (LastSignature at
                \* construction before the first)
    counter0    \* history, per Device: SignatureCounter at construction

vars == << devices, heap, mu, repoMu, pc, req, out, budget, nuuid,
           signLog, commits, lastCommit, counter0 >>

store == << devices, heap >>
locks == << mu, repoMu >>
history == << signLog, commits, lastCommit, counter0 >>

NoReq ==
    [ op |-> "none", id |-> EmptyString, data |-> EmptyString,
      device |-> 0, lastSig |-> EmptyString, counter |-> 0,
      securedData |-> EmptyString, signature |-> EmptyString,
      list |-> <<>>, response |-> <<>> ]

NoResp == [ proc |-> 0, status |-> 0, error |-> "", data |-> <<>> ]

\* domain.NewDevice
NewDevice(id, algorithm, label, publicKey, privateKey) ==
    [ ID |-> id, Algorithm |-> algorithm, Label |-> label,
      SignatureCounter |-> 0, PublicKey |-> publicKey,
      PrivateKey |-> privateKey, LastSignature |-> EmptyString ]

\* api.CreateDeviceResponse built from a Device
DeviceView(d) ==
    [ id |-> d.ID, algorithm |-> d.Algorithm, label |-> d.Label,
      signature_counter |-> d.SignatureCounter ]

\* The chain state reachable for an id through the repository: <<>> when
\* the id is not stored.
Chain(id) ==
    IF id \in DOMAIN devices
    THEN << heap[devices[id]].SignatureCounter, heap[devices[id]].LastSignature >>
    ELSE <<>>


(***************************************************************************)
(* Pure parts of the handlers.                                             *)
(***************************************************************************)
\* A secured string that carries the counter after the commit.
SecuredDataWithNextCounter(id, counter, lastSignature, dataToBeSigned) ==
    LET lastSig == IF lastSignature = EmptyString
                   THEN Base64Encode(id)
                   ELSE lastSignature
    IN  SprintfSecured(counter + 1, dataToBeSigned, lastSig)

\* A secured string that carries the device id as it is, not its base64.
SecuredDataWithRawID(id, counter, lastSignature, dataToBeSigned) ==
    LET lastSig == IF lastSignature = EmptyString
                   THEN id
                   ELSE lastSignature
    IN  SprintfSecured(counter, dataToBeSigned, lastSig)

\* Device.GetSecuredDataToSign, given the LastSignature and the
\* SignatureCounter it read: "<counter>_<data>_<last signature>", with the
\* base64 of the device id in place of an empty last signature.
SecuredDataToSign(id, counter, lastSignature, dataToBeSigned) ==
    LET lastSig == IF lastSignature = EmptyString
                   THEN Base64Encode(id)
                   ELSE lastSignature
    IN  SprintfSecured(counter, dataToBeSigned, lastSig)

\* An accessor that checks the algorithm and asserts no type.
GetRSAPrivateKeyUnchecked(d) ==
    IF d.Algorithm # AlgorithmRSA THEN "device algorithm is not RSA" ELSE ""

\* Device.GetRSAPrivateKey: the error, "" when there is none.
GetRSAPrivateKey(d) ==
    IF d.Algorithm # AlgorithmRSA THEN "device algorithm is not RSA"
    ELSE IF d.PrivateKey # RSAPrivate
         THEN "private key is not of type *rsa.PrivateKey"
    ELSE ""

\* Device.GetECDSAPrivateKey: the error, "" when there is none.
GetECDSAPrivateKey(d) ==
    IF d.Algorithm # AlgorithmECDSA THEN "device algorithm is not ECDSA"
    ELSE IF d.PrivateKey # ECDSAPrivate
         THEN "private key is not of type *ecdsa.PrivateKey"
    ELSE ""

\* Device.GetRSAPublicKey: the error, "" when there is none.
GetRSAPublicKey(d) ==
    IF d.Algorithm # AlgorithmRSA THEN "device algorithm is not RSA"
    ELSE IF d.PublicKey # RSAPublic
         THEN "public key is not of type *rsa.PublicKey"
    ELSE ""

\* A GetECDSAPublicKey that does not look at the algorithm of the device.
GetECDSAPublicKeyAnyAlgorithm(d) ==
    IF d.PublicKey # ECDSAPublic
    THEN "public key is not of type *ecdsa.PublicKey"
    ELSE ""

\* Device.GetECDSAPublicKey: the error, "" when there is none.
GetECDSAPublicKey(d) ==
    IF d.Algorithm # AlgorithmECDSA THEN "device algorithm is not ECDSA"
    ELSE IF d.PublicKey # ECDSAPublic
         THEN "public key is not of type *ecdsa.PublicKey"
    ELSE ""

\* The key a typed accessor returns with its error: the key asserted to
\* its type when there is no error, nil with an error.
KeyReturned(err, key) == IF err = "" THEN key ELSE NilKey

\* err.Error() of an error that comes from a library (gin's binding, the
\* crypto packages): one text stands for all of them.
LibraryError == "error"

\* ECDSASigner.Sign: the error of ecdsa.SignASN1 (the entropy source
\* failed), or a signature. err is "" when there is no error.
ECDSASign ==
    { [err |-> LibraryError, signature |-> <<>>] }
        \cup { [err |-> "", signature |-> b] : b \in SignatureBytes }

\* RSASigner.Sign (RSA-PSS, SHA-256): an error, or a signature.
RSASign ==
    { [err |-> LibraryError, signature |-> <<>>] }
        \cup { [err |-> "", signature |-> b] : b \in SignatureBytes }

\* RSAGenerator.Generate / ECCGenerator.Generate: an error, or a key pair
\* of the algorithm's types.
Generate(alg) ==
    { [err |-> LibraryError, pub |-> NilKey, priv |-> NilKey],
      IF alg = AlgorithmRSA
      THEN [err |-> "", pub |-> RSAPublic, priv |-> RSAPrivate]
      ELSE [err |-> "", pub |-> ECDSAPublic, priv |-> ECDSAPrivate] }

RECURSIVE Orders(_)
\* The orders in which a range over a Go map can visit the elements of S.
Orders(S) ==
    IF S = {} THEN { <<>> }
    ELSE UNION { { <<x>> \o t : t \in Orders(S \ {x}) } : x \in S }

(***************************************************************************)
(* Steps shared by the handlers.                                           *)
(***************************************************************************)
\* c.JSON(status, ...) followed by the handler's return.
Respond(p, status, error, data) ==
    /\ pc' = [pc EXCEPT ![p] = "idle"]
    /\ req' = [req EXCEPT ![p] = NoReq]
    /\ out' = [proc |-> p, status |-> status, error |-> error, data |-> data]

\* A request is served by a new goroutine. Goroutines are interchangeable:
\* the idle one with the smallest number takes the request.
Idle(p) == pc[p] = "idle" /\ \A q \in 1..(p - 1) : pc[q] # "idle"

\* A step that writes no response.
Silent == out' = NoResp

Goto(p, label) == pc' = [pc EXCEPT ![p] = label]

\* History: a SignTransaction obtained the device stored for id from the
\* repository (from then on it acts on the device) / wrote its response.
\* chain is the device's chain state at that moment.
LogStart(p, id) ==
    signLog' = [signLog EXCEPT ![id] = Append(@,
        [ ev |-> "start", proc |-> p, status |-> 0, error |-> "",
          signedData |-> EmptyString, signature |-> EmptyString,
          chain |-> Chain(id) ])]

LogReturn(p, id, status, error, securedData, signature) ==
    signLog' = [signLog EXCEPT ![id] = Append(@,
        [ ev |-> "return", proc |-> p, status |-> status, error |-> error,
          signedData |-> securedData, signature |-> signature,
          chain |-> Chain(id) ])]


(***************************************************************************)
(* sync.Mutex of a Device, sync.RWMutex of the repository.                 *)
(*                                                                         *)
(* A goroutine that waits for a lock has done nothing yet that another     *)
(* goroutine can observe, so acquiring a lock and the first access under   *)
(* it are one step, and the step that ends a critical section releases the *)
(* lock. A critical section of the repository is one access to the map:    *)
(* Lock/RLock, the access and the deferred Unlock/RUnlock are one step,    *)
(* which needs the lock to be available and leaves it as it leaves it.     *)
(* The computation of a handler that touches nothing shared (binding,      *)
(* validation, key generation) belongs to the step that follows it.        *)
(***************************************************************************)
\* A Lock that returns while another goroutine holds the mutex.
LockWithoutWaiting(p, d) == mu' = [mu EXCEPT ![d] = p]

\* A return that leaves the mutex locked.
ReturnWithoutUnlock(p, d) == mu' = mu

\* d.mu.Lock()
\* One lock for all devices: a Lock waits while any device is locked.
GlobalLock(p, d) ==
    /\ \A e \in DOMAIN mu : mu[e] = 0
    /\ mu' = [mu EXCEPT ![d] = p]

DeviceLock(p, d) == mu[d] = 0 /\ mu' = [mu EXCEPT ![d] = p]
\* d.mu.Unlock(), deferred
DeviceUnlock(p, d) == mu' = [mu EXCEPT ![d] = 0]

\* An Unlock that leaves the writer in place.
StillLocked(m, p) == m

\* r.mu.Lock() can return / the lock after it
CanLock(m, p) == m.w = 0 /\ m.r = {}
Locked(m, p) == [m EXCEPT !.w = p]
\* the lock after r.mu.Unlock()
Unlocked(m, p) == [m EXCEPT !.w = 0]
\* r.mu.RLock() can return / the lock after it
CanRLock(m, p) == m.w = 0
RLocked(m, p) == [m EXCEPT !.r = @ \cup {p}]
\* An RUnlock that leaves the reader in place.
ReaderLeft(m, p) == m

\* the lock after r.mu.RUnlock()
RUnlocked(m, p) == [m EXCEPT !.r = @ \ {p}]

\* r.mu.Lock(); defer r.mu.Unlock() around one access to the map
WriteLocked(p) ==
    CanLock(repoMu, p) /\ repoMu' = Unlocked(Locked(repoMu, p), p)
\* r.mu.RLock(); defer r.mu.RUnlock() around one access to the map
ReadLocked(p) ==
    CanRLock(repoMu, p) /\ repoMu' = RUnlocked(RLocked(repoMu, p), p)

(***************************************************************************)
(* InMemoryRepository.                                                     *)
(***************************************************************************)
\* A Create that does not look for the id in the map.
NoDuplicateCheck(id) == ""

\* Create: the error, "" when the device was stored.
RepoCreateErr(id) == IF id \in DOMAIN devices THEN "device already exists" ELSE ""

\* A Create that stores the device before it looks for the id.
RepoCreateOverwrites(p, device) ==
    /\ WriteLocked(p)
    /\ heap' = Append(heap, device)
    /\ devices' = (device.ID :> (Len(heap) + 1)) @@ devices
    /\ mu' = Append(mu, 0)
    /\ commits' = Append(commits, 0)
    /\ lastCommit' = Append(lastCommit, device.LastSignature)
    /\ counter0' = Append(counter0, device.SignatureCounter)

\* A Create that stores the device in a new map.
RepoCreateNewMap(p, device) ==
    /\ WriteLocked(p)
    /\ IF RepoCreateErr(device.ID) # ""
       THEN UNCHANGED << store, mu, commits, lastCommit, counter0 >>
       ELSE /\ heap' = Append(heap, device)
            /\ devices' = (device.ID :> (Len(heap) + 1))
            /\ mu' = Append(mu, 0)
            /\ commits' = Append(commits, 0)
            /\ lastCommit' = Append(lastCommit, device.LastSignature)
            /\ counter0' = Append(counter0, device.SignatureCounter)

\* Create stores a new Device struct: its reference is Len(heap) + 1.
RepoCreate(p, device) ==
    /\ WriteLocked(p)
    /\ IF RepoCreateErr(device.ID) # ""
       THEN UNCHANGED << store, mu, commits, lastCommit, counter0 >>
       ELSE /\ heap' = Append(heap, device)
            /\ devices' = (device.ID :> (Len(heap) + 1)) @@ devices
            /\ mu' = Append(mu, 0)
            /\ commits' = Append(commits, 0)
            /\ lastCommit' = Append(lastCommit, device.LastSignature)
            /\ counter0' = Append(counter0, device.SignatureCounter)

\* A Get that returns the first stored device for an id that is not
\* stored.
RepoGetAny(id) ==
    IF id \in DOMAIN devices THEN devices[id]
    ELSE IF heap = <<>> THEN 0 ELSE 1

\* Get: the reference of the device stored for id, 0 with ErrDeviceNotFound.
RepoGet(id) == IF id \in DOMAIN devices THEN devices[id] ELSE 0

\* List: the devices in an order the range over the map can visit them.
\* A List whose entries all are the same device.
RepoListRepeated ==
    IF DOMAIN devices = {} THEN { <<>> }
    ELSE { [i \in 1..Cardinality(DOMAIN devices) |-> devices[id]] :
             id \in DOMAIN devices }

RepoList == Orders({ devices[id] : id \in DOMAIN devices })

\* An Update that does not look for the id in the map.
NoPresenceCheck(id) == ""

\* An Update with the test of presence inverted.
RepoUpdateErrInverted(id) ==
    IF id \in DOMAIN devices THEN "device not found" ELSE ""

\* Update: the error, "" when the device was stored.
RepoUpdateErr(id) == IF id \in DOMAIN devices THEN "" ELSE "device not found"

\* Update stores the reference it is given under the ID of its Device.
\* An Update that stores the Device under every key of the map.
RepoUpdateEveryKey(p, d) ==
    /\ WriteLocked(p)
    /\ IF RepoUpdateErr(heap[d].ID) # ""
       THEN UNCHANGED devices
       ELSE devices' = [id \in DOMAIN devices |-> d]

RepoUpdate(p, d) ==
    /\ WriteLocked(p)
    /\ IF RepoUpdateErr(heap[d].ID) # ""
       THEN UNCHANGED devices
       ELSE devices' = (heap[d].ID :> d) @@ devices

(***************************************************************************)
(* Server.CreateDevice, and repository.Create called by a test's setup.    *)
(***************************************************************************)
\* CreateDevice up to the return of repository.Create: the request (id
\* optional, algorithm, label) is bound and validated, the id and the key
\* pair are generated, the device is built and stored.
\* A CreateDevice that takes the algorithm as it comes.
AlgorithmUnchecked(alg) == FALSE

\* The validation of the algorithm of a CreateDevice request.
InvalidAlgorithm(alg) == alg # AlgorithmRSA /\ alg # AlgorithmECDSA

\* CreateDevice for one request body, up to the return of
\* repository.Create.
CreateDevice_CreateReq(p, id, alg, label) ==
    /\ Idle(p) /\ budget > 0
    /\ budget' = budget - 1
    /\ IF alg = ""
       THEN /\ Respond(p, 400, "Invalid request body: " \o LibraryError,
                         <<>>)
            /\ UNCHANGED << store, locks, nuuid, commits, lastCommit, counter0 >>
       ELSE IF InvalidAlgorithm(alg)
       THEN /\ Respond(p, 400, "Algorithm must be either 'RSA' or 'ECDSA'",
                       <<>>)
            /\ UNCHANGED << store, locks, nuuid, commits, lastCommit, counter0 >>
       ELSE \* uuid.New() when no id was given
            LET deviceID == IF id = EmptyString
                            THEN GeneratedID(nuuid + 1) ELSE id
            IN
            /\ nuuid' = IF id = EmptyString THEN nuuid + 1 ELSE nuuid
            /\ \E kp \in Generate(alg) :
                 IF kp.err # ""
                 THEN /\ Respond(p, 500,
                            (IF alg = AlgorithmRSA
                             THEN "Failed to generate RSA key pair: "
                             ELSE "Failed to generate ECDSA key pair: ")
                                \o kp.err, <<>>)
                      /\ UNCHANGED << store, locks, commits, lastCommit, counter0 >>
                 ELSE /\ RepoCreate(p, NewDevice(deviceID, alg, label,
                                                 kp.pub, kp.priv))
                      /\ IF RepoCreateErr(deviceID) # ""
                         THEN Respond(p, 409,
                                 "Device with this ID already exists", <<>>)
                         ELSE /\ req' = [req EXCEPT ![p] = [NoReq EXCEPT
                                    !.op = "CreateDevice", !.id = deviceID,
                                    !.device = Len(heap) + 1]]
                              /\ Goto(p, "CreateDevice_response")
                              /\ Silent
    /\ UNCHANGED signLog

CreateDevice_Create(p) ==
    /\ Idle(p) /\ budget > 0
    /\ \E id \in RequestIDs \cup {EmptyString}, alg \in RequestAlgorithms,
          label \in Labels :
          CreateDevice_CreateReq(p, id, alg, label)

\* CreateDevice builds its response from the stored device.
CreateDevice_Response(p) ==
    /\ pc[p] = "CreateDevice_response"
    /\ Respond(p, 201, "", DeviceView(heap[req[p].device]))
    /\ UNCHANGED << store, locks, budget, nuuid, history >>

\* A test's setup calls s.repository.Create(domain.NewDevice(...)) with
\* keys of its choice: nil, nil or a generated pair of either algorithm.
SetupCreate(p) ==
    /\ Idle(p) /\ budget > 0
    /\ budget' = budget - 1
    /\ \E id \in RequestIDs, alg \in Algorithms, kp \in SetupKeys :
          RepoCreate(p, NewDevice(id, alg, EmptyString, kp.pub, kp.priv))
    /\ Silent
    /\ UNCHANGED << pc, req, nuuid, signLog >>

(***************************************************************************)
(* Server.GetDevice and Server.ListDevices.                                *)
(***************************************************************************)
\* The ids a client can name: its own, and the generated ones it was told.
KnownIDs == RequestIDs \cup { GeneratedID(n) : n \in 1..nuuid }

\* GetDevice for the id of the request path, up to the return of
\* repository.Get.
GetDevice_GetID(p, id) ==
    /\ Idle(p) /\ budget > 0
    /\ budget' = budget - 1
    /\ ReadLocked(p)
    /\ IF RepoGet(id) = 0
       THEN Respond(p, 404, "Device not found", <<>>)
       ELSE /\ req' = [req EXCEPT ![p] = [NoReq EXCEPT !.op = "GetDevice",
                          !.id = id, !.device = RepoGet(id)]]
            /\ Goto(p, "GetDevice_response")
            /\ Silent
    /\ UNCHANGED << store, mu, nuuid, history >>

\* GetDevice up to the return of repository.Get.
GetDevice_Get(p) ==
    /\ Idle(p) /\ budget > 0
    /\ \E id \in KnownIDs : GetDevice_GetID(p, id)

\* GetDevice builds its response from the device.
GetDevice_Response(p) ==
    /\ pc[p] = "GetDevice_response"
    /\ Respond(p, 200, "", DeviceView(heap[req[p].device]))
    /\ UNCHANGED << store, locks, budget, nuuid, history >>

\* ListDevices up to the return of repository.List.
ListDevices_List(p) ==
    /\ Idle(p) /\ budget > 0
    /\ budget' = budget - 1
    /\ ReadLocked(p)
    /\ \E order \in RepoList :
          IF order = <<>>
          THEN Respond(p, 200, "", <<>>)
          ELSE /\ req' = [req EXCEPT ![p] = [NoReq EXCEPT !.op = "ListDevices",
                             !.list = order]]
               /\ Goto(p, "ListDevices_response")
               /\ Silent
    /\ UNCHANGED << store, mu, nuuid, history >>

\* One iteration of the loop of ListDevices that builds the response; the
\* last one writes it.
ListDevices_Response(p) ==
    /\ pc[p] = "ListDevices_response"
    /\ LET i == Len(req[p].response) + 1
           response == Append(req[p].response,
                              DeviceView(heap[req[p].list[i]]))
       IN  IF i = Len(req[p].list)
           THEN Respond(p, 200, "", response)
           ELSE /\ req' = [req EXCEPT ![p].response = response]
                /\ Silent /\ UNCHANGED pc
    /\ UNCHANGED << store, locks, budget, nuuid, history >>

(***************************************************************************)
(* Device.GetSecuredDataToSign and Device.IncrementCounter.                *)
(***************************************************************************)
\* A GetSecuredDataToSign that reads d.LastSignature in a critical section
\* of its own.
GetSecuredDataToSign_LastSigOwnSection(p) ==
    /\ pc[p] = "GetSecuredDataToSign"
    /\ mu[req[p].device] = 0
    /\ req' = [req EXCEPT ![p].lastSig = heap[req[p].device].LastSignature]
    /\ Goto(p, "GetSecuredDataToSign_return")
    /\ Silent
    /\ UNCHANGED << store, locks, budget, nuuid, history >>

\* A GetSecuredDataToSign that reads d.LastSignature without the lock.
GetSecuredDataToSign_LastSigUnlocked(p) ==
    /\ pc[p] = "GetSecuredDataToSign"
    /\ req' = [req EXCEPT ![p].lastSig = heap[req[p].device].LastSignature]
    /\ Goto(p, "GetSecuredDataToSign_return")
    /\ Silent
    /\ UNCHANGED << store, locks, budget, nuuid, history >>

\* GetSecuredDataToSign takes the device's lock and reads d.LastSignature.
GetSecuredDataToSign_LastSig(p) ==
    /\ pc[p] = "GetSecuredDataToSign"
    /\ DeviceLock(p, req[p].device)
    /\ req' = [req EXCEPT ![p].lastSig = heap[req[p].device].LastSignature]
    /\ Goto(p, "GetSecuredDataToSign_return")
    /\ Silent
    /\ UNCHANGED << store, repoMu, budget, nuuid, history >>

\* The rest of GetSecuredDataToSign: the read of d.SignatureCounter, the
\* formatting, and the deferred d.mu.Unlock().
GetSecuredDataToSign_Return(p) ==
    /\ pc[p] = "GetSecuredDataToSign_return"
    /\ LET d == heap[req[p].device]
           securedData == SecuredDataToSign(d.ID, d.SignatureCounter,
                                            req[p].lastSig, req[p].data)
       IN  IF req[p].op = "SignTransaction"
           THEN /\ req' = [req EXCEPT ![p].securedData = securedData,
                                      ![p].lastSig = EmptyString]
                /\ Goto(p, "Sign")
                /\ Silent
           ELSE Respond(p, 0, "", securedData)
    /\ DeviceUnlock(p, req[p].device)
    /\ UNCHANGED << store, repoMu, budget, nuuid, history >>

\* IncrementCounter takes the device's lock; d.SignatureCounter++ reads
\* the counter.
IncrementCounter_Load(p) ==
    /\ pc[p] = "IncrementCounter"
    /\ DeviceLock(p, req[p].device)
    /\ req' = [req EXCEPT ![p].counter = heap[req[p].device].SignatureCounter]
    /\ Goto(p, "IncrementCounter_store")
    /\ Silent
    /\ UNCHANGED << store, repoMu, budget, nuuid, history >>

\* An increment that stores the signature and keeps the counter.
IncrementedSignatureOnly(d, counter, newSignature) ==
    [d EXCEPT !.LastSignature = newSignature]

\* An increment that stores the base64 of the signature it is given.
IncrementedEncodedAgain(d, counter, newSignature) ==
    [d EXCEPT !.SignatureCounter = counter + 1,
              !.LastSignature = Base64Encode(newSignature)]

\* An increment by two.
IncrementedByTwo(d, counter, newSignature) ==
    [d EXCEPT !.SignatureCounter = counter + 2, !.LastSignature = newSignature]

\* An increment that keeps the old LastSignature.
IncrementedCounterOnly(d, counter, newSignature) ==
    [d EXCEPT !.SignatureCounter = counter + 1]

\* An increment that builds the Device anew from its id and algorithm.
IncrementedAsNewDevice(d, counter, newSignature) ==
    [ NewDevice(d.ID, d.Algorithm, EmptyString, NilKey, NilKey)
        EXCEPT !.SignatureCounter = counter + 1,
               !.LastSignature = newSignature ]

\* The Device after the stores of IncrementCounter: the counter read plus
\* one, and the new signature.
Incremented(d, counter, newSignature) ==
    [d EXCEPT !.SignatureCounter = counter + 1, !.LastSignature = newSignature]

\* The rest of IncrementCounter: the store of the counter, the store of
\* d.LastSignature, and the deferred d.mu.Unlock().
IncrementCounter_Store(p) ==
    /\ pc[p] = "IncrementCounter_store"
    /\ heap' = [heap EXCEPT ![req[p].device] =
                   Incremented(@, req[p].counter, req[p].signature)]
    /\ commits' = [commits EXCEPT ![req[p].device] = @ + 1]
    /\ lastCommit' = [lastCommit EXCEPT ![req[p].device] = req[p].signature]
    /\ DeviceUnlock(p, req[p].device)
    /\ IF req[p].op = "SignTransaction"
       THEN /\ req' = [req EXCEPT ![p].counter = 0]
            /\ Goto(p, "Update")
            /\ Silent
       ELSE Respond(p, 0, "", <<>>)
    /\ UNCHANGED << devices, repoMu, budget, nuuid, signLog, counter0 >>

(***************************************************************************)
(* Server.SignTransaction.                                                 *)
(***************************************************************************)
\* A SignTransaction that looks the device up before it validates the
\* body.
SignTransaction_GetIDLookupFirst(p, id, data) ==
    /\ Idle(p) /\ budget > 0
    /\ budget' = budget - 1
    /\ ReadLocked(p)
    /\ IF RepoGet(id) = 0
       THEN /\ Respond(p, 404, "Device not found", <<>>)
            /\ UNCHANGED signLog
       ELSE IF data = EmptyString
       THEN /\ Respond(p, 400, "Invalid request body: " \o LibraryError,
                       <<>>)
            /\ UNCHANGED signLog
       ELSE /\ req' = [req EXCEPT ![p] = [NoReq EXCEPT
                          !.op = "SignTransaction", !.id = id,
                          !.data = data, !.device = RepoGet(id)]]
            /\ Goto(p, "GetSecuredDataToSign")
            /\ LogStart(p, id)
            /\ Silent
    /\ UNCHANGED << store, mu, nuuid, commits, lastCommit, counter0 >>

\* A SignTransaction whose Get hands out a copy of the stored Device.
SignTransaction_GetIDCopies(p, id, data) ==
    /\ Idle(p) /\ budget > 0
    /\ budget' = budget - 1
    /\ IF data = EmptyString
       THEN /\ Respond(p, 400, "Invalid request body: " \o LibraryError,
                         <<>>)
            /\ UNCHANGED << repoMu, signLog, heap, mu, commits, lastCommit,
                            counter0 >>
       ELSE /\ ReadLocked(p)
            /\ IF RepoGet(id) = 0
               THEN /\ Respond(p, 404, "Device not found", <<>>)
                    /\ UNCHANGED << signLog, heap, mu, commits, lastCommit,
                                    counter0 >>
               ELSE /\ heap' = Append(heap, heap[RepoGet(id)])
                    /\ mu' = Append(mu, 0)
                    /\ commits' = Append(commits, commits[RepoGet(id)])
                    /\ lastCommit' = Append(lastCommit, lastCommit[RepoGet(id)])
                    /\ counter0' = Append(counter0, counter0[RepoGet(id)])
                    /\ req' = [req EXCEPT ![p] = [NoReq EXCEPT
                          !.op = "SignTransaction", !.id = id,
                          !.data = data, !.device = Len(heap) + 1]]
                    /\ Goto(p, "GetSecuredDataToSign")
                    /\ LogStart(p, id)
                    /\ Silent
    /\ UNCHANGED << devices, nuuid >>

\* SignTransaction for one request, up to the return of repository.Get: a
\* body without data is rejected before the device is looked up.
SignTransaction_GetID(p, id, data) ==
    /\ Idle(p) /\ budget > 0
    /\ budget' = budget - 1
    /\ IF data = EmptyString
       THEN /\ Respond(p, 400, "Invalid request body: " \o LibraryError,
                         <<>>)
            /\ UNCHANGED << repoMu, signLog >>
       ELSE /\ ReadLocked(p)
            /\ IF RepoGet(id) = 0
               THEN /\ Respond(p, 404, "Device not found", <<>>)
                    /\ UNCHANGED signLog
               ELSE /\ req' = [req EXCEPT ![p] = [NoReq EXCEPT
                          !.op = "SignTransaction", !.id = id,
                          !.data = data, !.device = RepoGet(id)]]
                    /\ Goto(p, "GetSecuredDataToSign")
                    /\ LogStart(p, id)
                    /\ Silent
    /\ UNCHANGED << store, mu, nuuid, commits, lastCommit, counter0 >>

\* SignTransaction up to the return of repository.Get.
SignTransaction_Get(p) ==
    /\ Idle(p) /\ budget > 0
    /\ \E id \in KnownIDs, data \in Datas \cup {EmptyString} :
          SignTransaction_GetID(p, id, data)

\* The signer's result for the device: the typed key accessor of the
\* device's algorithm, then Signer.Sign. A set of [error, signature].
SignWithDevice(d) ==
    LET keyErr == IF d.Algorithm = AlgorithmRSA
                  THEN GetRSAPrivateKey(d) ELSE GetECDSAPrivateKey(d)
        signed == IF d.Algorithm = AlgorithmRSA THEN RSASign ELSE ECDSASign
    IN  IF keyErr # ""
        THEN { [error |-> (IF d.Algorithm = AlgorithmRSA
                           THEN "Failed to get RSA private key: "
                           ELSE "Failed to get ECDSA private key: ") \o keyErr,
                signature |-> <<>>] }
        ELSE { [error |-> IF r.err # ""
                          THEN "Failed to sign data: " \o r.err ELSE "",
                signature |-> r.signature] : r \in signed }

\* A handler that commits before it looks at the signer's error.
SignTransaction_SignCommitsFirst(p) ==
    /\ pc[p] = "Sign"
    /\ \E r \in SignWithDevice(heap[req[p].device]) :
          IF r.error # ""
          THEN /\ Respond(p, 500, r.error, <<>>)
               /\ heap' = [heap EXCEPT ![req[p].device] =
                              Incremented(@, @.SignatureCounter, EmptyString)]
               /\ commits' = [commits EXCEPT ![req[p].device] = @ + 1]
               /\ lastCommit' = [lastCommit EXCEPT ![req[p].device] = EmptyString]
               /\ signLog' = [signLog EXCEPT ![req[p].id] = Append(@,
                     [ ev |-> "return", proc |-> p, status |-> 500,
                       error |-> r.error, signedData |-> req[p].securedData,
                       signature |-> EmptyString,
                       chain |-> << heap'[req[p].device].SignatureCounter,
                                    heap'[req[p].device].LastSignature >> ])]
          ELSE /\ req' = [req EXCEPT ![p].signature = Base64Encode(r.signature)]
               /\ Goto(p, "IncrementCounter")
               /\ Silent
               /\ UNCHANGED << heap, commits, lastCommit, signLog >>
    /\ UNCHANGED << devices, locks, budget, nuuid, counter0 >>

\* SignTransaction between the two critical sections: the signer is
\* created and signs the secured data, the signature is base64-encoded.
SignTransaction_Sign(p) ==
    /\ pc[p] = "Sign"
    /\ \E r \in SignWithDevice(heap[req[p].device]) :
          IF r.error # ""
          THEN /\ Respond(p, 500, r.error, <<>>)
               /\ LogReturn(p, req[p].id, 500, r.error,
                            req[p].securedData, EmptyString)
          ELSE /\ req' = [req EXCEPT ![p].signature = Base64Encode(r.signature)]
               /\ Goto(p, "IncrementCounter")
               /\ Silent
               /\ UNCHANGED signLog
    /\ UNCHANGED << store, locks, budget, nuuid, commits, lastCommit, counter0 >>

\* The end of SignTransaction: repository.Update, then the response, or
\* the error of Update.
SignTransaction_Update(p) ==
    /\ pc[p] = "Update"
    /\ RepoUpdate(p, req[p].device)
    /\ IF RepoUpdateErr(heap[req[p].device].ID) # ""
       THEN /\ Respond(p, 500, "Failed to update device: "
                               \o RepoUpdateErr(heap[req[p].device].ID), <<>>)
            /\ LogReturn(p, req[p].id, 500, "Failed to update device: "
                               \o RepoUpdateErr(heap[req[p].device].ID),
                         req[p].securedData, req[p].signature)
       ELSE /\ Respond(p, 200, "",
                       [ signature |-> req[p].signature,
                         signed_data |-> req[p].securedData ])
            /\ LogReturn(p, req[p].id, 200, "",
                         req[p].securedData, req[p].signature)
    /\ UNCHANGED << heap, mu, budget, nuuid, commits, lastCommit, counter0 >>

(***************************************************************************)
(* The server: concurrent handlers over one repository.                    *)
(***************************************************************************)
Init ==
    /\ devices = [id \in {} |-> 0]
    /\ heap = <<>>
    /\ mu = <<>>
    /\ repoMu = [w |-> 0, r |-> {}]
    /\ pc = [p \in Procs |-> "idle"]
    /\ req = [p \in Procs |-> NoReq]
    /\ out = NoResp
    /\ budget = MaxRequests
    /\ nuuid = 0
    /\ signLog = [id \in AllIDs |-> <<>>]
    /\ commits = <<>>
    /\ lastCommit = <<>>
    /\ counter0 = <<>>

Next ==
    \E p \in Procs :
        \/ CreateDevice_Create(p)
        \/ CreateDevice_Response(p)
        \/ SetupCreate(p)
        \/ GetDevice_Get(p)
        \/ GetDevice_Response(p)
        \/ ListDevices_List(p)
        \/ ListDevices_Response(p)
        \/ SignTransaction_Get(p)
        \/ GetSecuredDataToSign_LastSig(p)
        \/ GetSecuredDataToSign_Return(p)
        \/ SignTransaction_Sign(p)
        \/ IncrementCounter_Load(p)
        \/ IncrementCounter_Store(p)
        \/ SignTransaction_Update(p)

Spec == Init /\ [][Next]_vars


(***************************************************************************)
(* One test of SignTransaction: set-ups through repository.Create, then    *)
(* concurrent SignTransaction requests.                                    *)
(***************************************************************************)
SignInit ==
    /\ devices = [id \in {} |-> 0]
    /\ heap = <<>>
    /\ mu = <<>>
    /\ repoMu = [w |-> 0, r |-> {}]
    /\ pc = [p \in Procs |-> "idle"]
    /\ req = [p \in Procs |-> NoReq]
    /\ out = NoResp
    /\ budget = MaxChainRequests
    /\ nuuid = 0
    /\ signLog = [id \in AllIDs |-> <<>>]
    /\ commits = <<>>
    /\ lastCommit = <<>>
    /\ counter0 = <<>>

SignNext ==
    \E p \in Procs :
        \/ SetupCreate(p)
        \/ SignTransaction_Get(p)
        \/ GetSecuredDataToSign_LastSig(p)
        \/ GetSecuredDataToSign_Return(p)
        \/ SignTransaction_Sign(p)
        \/ IncrementCounter_Load(p)
        \/ IncrementCounter_Store(p)
        \/ SignTransaction_Update(p)

SignSpec == SignInit /\ [][SignNext]_vars

(***************************************************************************)
(* The unit tests of the domain package: a Device built as a struct        *)
(* literal, and goroutines calling its methods directly.                   *)
(***************************************************************************)
\* SignatureCounter values of the literals: 0, 9, 10.
LiteralCounters == {0, 9, 10}

\* Signatures as SignTransaction encodes them, and "".
EncodedSignatures == { Base64Encode(b) : b \in SignatureBytes }

\* &Device{ID: ..., Algorithm: ..., SignatureCounter: ..., LastSignature: ...}
DeviceLiterals ==
    { [ NewDevice(id, alg, EmptyString, NilKey, NilKey)
          EXCEPT !.SignatureCounter = c, !.LastSignature = l ] :
        id \in RequestIDs, alg \in Algorithms, c \in LiteralCounters,
        l \in EncodedSignatures \cup {EmptyString} }

DomainInit ==
    /\ devices = [id \in {} |-> 0]
    /\ heap \in { <<d>> : d \in DeviceLiterals }
    /\ mu = <<0>>
    /\ repoMu = [w |-> 0, r |-> {}]
    /\ pc = [p \in Procs |-> "idle"]
    /\ req = [p \in Procs |-> NoReq]
    /\ out = NoResp
    /\ budget = MaxCalls
    /\ nuuid = 0
    /\ signLog = [id \in AllIDs |-> <<>>]
    /\ commits = <<0>>
    /\ lastCommit = <<heap[1].LastSignature>>
    /\ counter0 = <<heap[1].SignatureCounter>>

\* go device.GetSecuredDataToSign(data)
CallGetSecuredDataToSign(p) ==
    /\ Idle(p) /\ budget > 0
    /\ budget' = budget - 1
    /\ \E data \in Datas \cup {EmptyString} :
          req' = [req EXCEPT ![p] = [NoReq EXCEPT
                     !.op = "GetSecuredDataToSign", !.device = 1,
                     !.data = data]]
    /\ Goto(p, "GetSecuredDataToSign")
    /\ Silent
    /\ UNCHANGED << store, locks, nuuid, history >>

\* go device.IncrementCounter(newSignature)
CallIncrementCounter(p) ==
    /\ Idle(p) /\ budget > 0
    /\ budget' = budget - 1
    /\ \E sig \in EncodedSignatures \cup {EmptyString} :
          req' = [req EXCEPT ![p] = [NoReq EXCEPT
                     !.op = "IncrementCounter", !.device = 1,
                     !.signature = sig]]
    /\ Goto(p, "IncrementCounter")
    /\ Silent
    /\ UNCHANGED << store, locks, nuuid, history >>

DomainNext ==
    \E p \in Procs :
        \/ CallGetSecuredDataToSign(p)
        \/ CallIncrementCounter(p)
        \/ GetSecuredDataToSign_LastSig(p)
        \/ GetSecuredDataToSign_Return(p)
        \/ IncrementCounter_Load(p)
        \/ IncrementCounter_Store(p)

DomainSpec == DomainInit /\ [][DomainNext]_vars


(***************************************************************************)
(* The unit tests of the typed key accessors: a Device literal with an     *)
(* algorithm and keys of any dynamic type, and direct calls.               *)
(***************************************************************************)
\* The dynamic types an interface{} key field holds in the tests and in
\* the server, and nil.
KeyValues == { NilKey, RSAPrivate, ECDSAPrivate, RSAPublic, ECDSAPublic }

\* &Device{Algorithm: ..., PublicKey: ..., PrivateKey: ...}
KeyLiterals ==
    { NewDevice(EmptyString, alg, EmptyString, pub, priv) :
        alg \in Algorithms, pub \in KeyValues, priv \in KeyValues }

KeyInit ==
    /\ devices = [id \in {} |-> 0]
    /\ heap \in { <<d>> : d \in KeyLiterals }
    /\ mu = <<0>>
    /\ repoMu = [w |-> 0, r |-> {}]
    /\ pc = [p \in Procs |-> "idle"]
    /\ req = [p \in Procs |-> NoReq]
    /\ out = NoResp
    /\ budget = MaxKeyCalls
    /\ nuuid = 0
    /\ signLog = [id \in AllIDs |-> <<>>]
    /\ commits = <<0>>
    /\ lastCommit = <<EmptyString>>
    /\ counter0 = <<0>>

\* key, err := tt.device.GetRSAPrivateKey()
CallGetRSAPrivateKey(p) ==
    /\ Idle(p) /\ budget > 0
    /\ budget' = budget - 1
    /\ Respond(p, 0, GetRSAPrivateKey(heap[1]),
               [ accessor |-> "GetRSAPrivateKey",
                 key |-> KeyReturned(GetRSAPrivateKey(heap[1]), heap[1].PrivateKey) ])
    /\ UNCHANGED << store, locks, nuuid, history >>

\* key, err := tt.device.GetECDSAPrivateKey()
CallGetECDSAPrivateKey(p) ==
    /\ Idle(p) /\ budget > 0
    /\ budget' = budget - 1
    /\ Respond(p, 0, GetECDSAPrivateKey(heap[1]),
               [ accessor |-> "GetECDSAPrivateKey",
                 key |-> KeyReturned(GetECDSAPrivateKey(heap[1]), heap[1].PrivateKey) ])
    /\ UNCHANGED << store, locks, nuuid, history >>

\* key, err := tt.device.GetRSAPublicKey()
CallGetRSAPublicKey(p) ==
    /\ Idle(p) /\ budget > 0
    /\ budget' = budget - 1
    /\ Respond(p, 0, GetRSAPublicKey(heap[1]),
               [ accessor |-> "GetRSAPublicKey",
                 key |-> KeyReturned(GetRSAPublicKey(heap[1]), heap[1].PublicKey) ])
    /\ UNCHANGED << store, locks, nuuid, history >>

\* key, err := tt.device.GetECDSAPublicKey()
CallGetECDSAPublicKey(p) ==
    /\ Idle(p) /\ budget > 0
    /\ budget' = budget - 1
    /\ Respond(p, 0, GetECDSAPublicKey(heap[1]),
               [ accessor |-> "GetECDSAPublicKey",
                 key |-> KeyReturned(GetECDSAPublicKey(heap[1]), heap[1].PublicKey) ])
    /\ UNCHANGED << store, locks, nuuid, history >>

KeyNext ==
    \E p \in Procs :
        \/ CallGetRSAPrivateKey(p)
        \/ CallGetECDSAPrivateKey(p)
        \/ CallGetRSAPublicKey(p)
        \/ CallGetECDSAPublicKey(p)

KeySpec == KeyInit /\ [][KeyNext]_vars

(***************************************************************************)
(* A server that holds two devices, one per algorithm, created through     *)
(* CreateDevice: concurrent SignTransaction requests on them.              *)
(***************************************************************************)
ParallelInit ==
    /\ heap = << NewDevice(GeneratedID(1), AlgorithmRSA, EmptyString,
                           RSAPublic, RSAPrivate),
                 NewDevice(GeneratedID(2), AlgorithmECDSA, EmptyString,
                           ECDSAPublic, ECDSAPrivate) >>
    /\ devices = (GeneratedID(1) :> 1) @@ (GeneratedID(2) :> 2)
    /\ mu = << 0, 0 >>
    /\ repoMu = [w |-> 0, r |-> {}]
    /\ pc = [p \in Procs |-> "idle"]
    /\ req = [p \in Procs |-> NoReq]
    /\ out = NoResp
    /\ budget = MaxParallelSigns
    /\ nuuid = 2
    /\ signLog = [id \in AllIDs |-> <<>>]
    /\ commits = << 0, 0 >>
    /\ lastCommit = << EmptyString, EmptyString >>
    /\ counter0 = << 0, 0 >>

ParallelNext ==
    \E p \in Procs :
        \/ SignTransaction_Get(p)
        \/ GetSecuredDataToSign_LastSig(p)
        \/ GetSecuredDataToSign_Return(p)
        \/ SignTransaction_Sign(p)
        \/ IncrementCounter_Load(p)
        \/ IncrementCounter_Store(p)
        \/ SignTransaction_Update(p)

ParallelSpec == ParallelInit /\ [][ParallelNext]_vars

(***************************************************************************)
(* The server under fair scheduling. The Go scheduler preempts, so every   *)
(* goroutine that can run does run; a goroutine blocked in Lock is woken   *)
(* when the mutex is unlocked. The server holds the two devices of         *)
(* ParallelInit; requests of every kind arrive, and none has to arrive.    *)
(* A request that fails its validation or names an id that is not stored   *)
(* is answered in the step that starts it: the requests here are the ones  *)
(* that go on.                                                             *)
(***************************************************************************)
FairInit ==
    /\ heap = << NewDevice(GeneratedID(1), AlgorithmRSA, EmptyString,
                           RSAPublic, RSAPrivate),
                 NewDevice(GeneratedID(2), AlgorithmECDSA, EmptyString,
                           ECDSAPublic, ECDSAPrivate) >>
    /\ devices = (GeneratedID(1) :> 1) @@ (GeneratedID(2) :> 2)
    /\ mu = << 0, 0 >>
    /\ repoMu = [w |-> 0, r |-> {}]
    /\ pc = [p \in Procs |-> "idle"]
    /\ req = [p \in Procs |-> NoReq]
    /\ out = NoResp
    /\ budget = MaxFairRequests
    /\ nuuid = 2
    /\ signLog = [id \in AllIDs |-> <<>>]
    /\ commits = << 0, 0 >>
    /\ lastCommit = << EmptyString, EmptyString >>
    /\ counter0 = << 0, 0 >>

\* The steps of goroutine p after its handler has started.
Continue(p) ==
    \/ CreateDevice_Response(p)
    \/ GetDevice_Response(p)
    \/ ListDevices_Response(p)
    \/ GetSecuredDataToSign_LastSig(p)
    \/ GetSecuredDataToSign_Return(p)
    \/ SignTransaction_Sign(p)
    \/ IncrementCounter_Load(p)
    \/ IncrementCounter_Store(p)
    \/ SignTransaction_Update(p)

\* POST /api/v0/devices with a supported algorithm and no id.
FairCreateDevice(p) ==
    /\ Idle(p) /\ budget > 0
    /\ \E alg \in Algorithms, label \in Labels :
          CreateDevice_CreateReq(p, EmptyString, alg, label)

\* GET /api/v0/devices/:id for a stored id.
FairGetDevice(p) ==
    /\ Idle(p) /\ budget > 0
    /\ \E id \in DOMAIN devices : GetDevice_GetID(p, id)

\* POST /api/v0/devices/:id/sign for a stored id, with data.
FairSignTransaction(p) ==
    /\ Idle(p) /\ budget > 0
    /\ \E id \in DOMAIN devices, data \in Datas :
          SignTransaction_GetID(p, id, data)

FairNext ==
    \E p \in Procs :
        \/ FairCreateDevice(p)
        \/ CreateDevice_Response(p)
        \/ FairGetDevice(p)
        \/ GetDevice_Response(p)
        \/ ListDevices_List(p)
        \/ ListDevices_Response(p)
        \/ FairSignTransaction(p)
        \/ GetSecuredDataToSign_LastSig(p)
        \/ GetSecuredDataToSign_Return(p)
        \/ SignTransaction_Sign(p)
        \/ IncrementCounter_Load(p)
        \/ IncrementCounter_Store(p)
        \/ SignTransaction_Update(p)

FairSpec ==
    /\ FairInit
    /\ [][FairNext]_vars
    /\ \A p \in Procs : WF_vars(Continue(p))

(***************************************************************************)
(* The unit tests of the persistence package: Device literals handed to    *)
(* the repository's methods directly.                                      *)
(***************************************************************************)
\* Ids the tests name: "X", "Y".
StoreTestIDs == RequestIDs \cup { <<89>> }

\* SignatureCounter values of the tests' literals.
StoreCounters == {5, 10}

\* &domain.Device{ID: ..., Algorithm: domain.AlgorithmRSA, SignatureCounter: ...}
StoreLiterals ==
    { [ NewDevice(id, AlgorithmRSA, EmptyString, NilKey, NilKey)
          EXCEPT !.SignatureCounter = c ] :
        id \in StoreTestIDs, c \in StoreCounters }

StoreInit ==
    /\ devices = [id \in {} |-> 0]
    /\ heap = <<>>
    /\ mu = <<>>
    /\ repoMu = [w |-> 0, r |-> {}]
    /\ pc = [p \in Procs |-> "idle"]
    /\ req = [p \in Procs |-> NoReq]
    /\ out = NoResp
    /\ budget = MaxStoreCalls
    /\ nuuid = 0
    /\ signLog = [id \in AllIDs |-> <<>>]
    /\ commits = <<>>
    /\ lastCommit = <<>>
    /\ counter0 = <<>>

\* err := repo.Create(tt.device)
StoreCreate(p) ==
    /\ Idle(p) /\ budget > 0
    /\ budget' = budget - 1
    /\ \E device \in StoreLiterals :
          /\ RepoCreate(p, device)
          /\ Respond(p, 0, RepoCreateErr(device.ID),
                     [ op |-> "Create", id |-> device.ID, device |-> 0 ])
    /\ UNCHANGED << nuuid, signLog >>

\* device, err := repo.Get(tt.deviceID)
StoreGet(p) ==
    /\ Idle(p) /\ budget > 0
    /\ budget' = budget - 1
    /\ ReadLocked(p)
    /\ \E id \in StoreTestIDs :
          Respond(p, 0, IF RepoGet(id) = 0 THEN "device not found" ELSE "",
                  [ op |-> "Get", id |-> id, device |-> RepoGet(id) ])
    /\ UNCHANGED << store, mu, nuuid, history >>

\* devices, err := repo.List()
StoreList(p) ==
    /\ Idle(p) /\ budget > 0
    /\ budget' = budget - 1
    /\ ReadLocked(p)
    /\ \E order \in RepoList :
          Respond(p, 0, "", [ op |-> "List", id |-> EmptyString, device |-> order ])
    /\ UNCHANGED << store, mu, nuuid, history >>

\* A test builds the Device literal it will hand to Update.
StoreUpdate_Literal(p) ==
    /\ Idle(p) /\ budget > 0
    /\ budget' = budget - 1
    /\ \E device \in StoreLiterals :
          /\ heap' = Append(heap, device)
          /\ mu' = Append(mu, 0)
          /\ commits' = Append(commits, 0)
          /\ lastCommit' = Append(lastCommit, device.LastSignature)
          /\ counter0' = Append(counter0, device.SignatureCounter)
    /\ req' = [req EXCEPT ![p] = [NoReq EXCEPT !.op = "Update",
                                               !.device = Len(heap) + 1]]
    /\ Goto(p, "StoreUpdate")
    /\ Silent
    /\ UNCHANGED << devices, repoMu, nuuid, signLog >>

\* err := repo.Update(tt.device)
StoreUpdate(p) ==
    /\ pc[p] = "StoreUpdate"
    /\ RepoUpdate(p, req[p].device)
    /\ Respond(p, 0, RepoUpdateErr(heap[req[p].device].ID),
               [ op |-> "Update", id |-> heap[req[p].device].ID,
                 device |-> req[p].device ])
    /\ UNCHANGED << heap, mu, budget, nuuid, history >>

\* The Device that Get returned is handed to Update, as SignTransaction
\* does.
StoreUpdate_Got(p) ==
    /\ Idle(p) /\ budget > 0
    /\ budget' = budget - 1
    /\ ReadLocked(p)
    /\ \E id \in StoreTestIDs :
          /\ RepoGet(id) # 0
          /\ req' = [req EXCEPT ![p] = [NoReq EXCEPT !.op = "Update",
                                                     !.device = RepoGet(id)]]
    /\ Goto(p, "StoreUpdate")
    /\ Silent
    /\ UNCHANGED << store, mu, nuuid, history >>

\* IncrementCounter is called on the Device that Get returned, as
\* SignTransaction does.
StoreIncrement_Got(p) ==
    /\ Idle(p) /\ budget > 0
    /\ budget' = budget - 1
    /\ ReadLocked(p)
    /\ \E id \in StoreTestIDs, sig \in EncodedSignatures :
          /\ RepoGet(id) # 0
          /\ req' = [req EXCEPT ![p] = [NoReq EXCEPT !.op = "IncrementCounter",
                                                     !.device = RepoGet(id),
                                                     !.signature = sig]]
    /\ Goto(p, "IncrementCounter")
    /\ Silent
    /\ UNCHANGED << store, mu, nuuid, history >>

StoreNext ==
    \E p \in Procs :
        \/ StoreCreate(p)
        \/ StoreGet(p)
        \/ StoreList(p)
        \/ StoreUpdate_Literal(p)
        \/ StoreUpdate_Got(p)
        \/ StoreUpdate(p)
        \/ StoreIncrement_Got(p)
        \/ IncrementCounter_Load(p)
        \/ IncrementCounter_Store(p)

StoreSpec == StoreInit /\ [][StoreNext]_vars

(***************************************************************************)
(* Properties of the chaining protocol.                                    *)
(***************************************************************************)
\* The SignTransaction of goroutine p has read the chain state of its
\* device (the last signature, at least) and has not committed: it stands
\* between step 1 and the end of step 4 of the protocol.
BetweenReadAndCommit(p) ==
    /\ req[p].op = "SignTransaction"
    /\ pc[p] \in { "GetSecuredDataToSign_return", "Sign", "IncrementCounter",
                   "IncrementCounter_store" }

\* A SignTransaction on the device stored for id has not returned.
SignInFlight(id) ==
    \E p \in Procs : req[p].op = "SignTransaction" /\ req[p].id = id

\* The responses with status 200 logged for id, in the order they were
\* written.
Returned(id) ==
    SelectSeq(signLog[id], LAMBDA e : e.ev = "return" /\ e.status = 200)

\* C1: the read-sign-commit sequence of a sign is atomic per device: no two
\* signs of the same device stand between their read of the chain state
\* and their commit at the same time.
C1_ReadSignCommitAtomic ==
    \A p, q \in Procs :
        (p # q /\ BetweenReadAndCommit(p) /\ BetweenReadAndCommit(q))
            => req[p].device # req[q].device

\* C2: the signedData strings returned by the signs of one device, however
\* they overlapped, carry pairwise distinct counters.
C2_DistinctCounters ==
    \A id \in DOMAIN devices :
        \A i, j \in DOMAIN Returned(id) :
            i # j => EmbeddedCounter(Returned(id)[i].signedData)
                        # EmbeddedCounter(Returned(id)[j].signedData)

\* C3: the SignatureCounter of every device is its value at construction
\* plus the number of IncrementCounter calls completed on the device: no
\* increment is lost, however the calls overlap.
C3_CounterCountsIncrements ==
    \A d \in DOMAIN heap :
        heap[d].SignatureCounter = counter0[d] + commits[d]

\* Two increments of one device have completed while their signs
\* overlapped: both had read the chain state before either returned.
C3_Witness ==
    \E d \in DOMAIN heap :
        /\ commits[d] >= 2
        /\ \E p, q \in Procs :
              /\ p # q
              /\ pc[p] = "Update" /\ pc[q] = "Update"
              /\ req[p].device = d /\ req[q].device = d

\* C4: once no sign of a device is in flight, the counters of the
\* signedData strings returned for it are 0 .. SignatureCounter - 1, each
\* exactly once.
C4_GapFree ==
    \A id \in DOMAIN devices :
        ~SignInFlight(id) =>
            LET returned == Returned(id)
                counter == heap[devices[id]].SignatureCounter
            IN  /\ Len(returned) = counter
                /\ { EmbeddedCounter(returned[i].signedData) :
                        i \in DOMAIN returned } = 0..(counter - 1)


\* C5: once no sign of a device is in flight, every returned signedData
\* with a counter k >= 1 ends with the signature that was returned with a
\* signedData of counter k - 1.
C5_ChainIntegrity ==
    \A id \in DOMAIN devices :
        ~SignInFlight(id) =>
            LET returned == Returned(id) IN
            \A i \in DOMAIN returned :
                LET k == EmbeddedCounter(returned[i].signedData) IN
                k >= 1 =>
                    \E j \in DOMAIN returned :
                        /\ EmbeddedCounter(returned[j].signedData) = k - 1
                        /\ TrailingSegment(returned[i].signedData)
                              = returned[j].signature

\* Entries i and i + 1 of a sign log are one sign that ran alone: no sign
\* was in flight when it obtained the device (every earlier start has its
\* return), and its return follows its start with nothing in between.
RanAlone(log, i) ==
    /\ i + 1 <= Len(log)
    /\ log[i].ev = "start" /\ log[i + 1].ev = "return"
    /\ log[i].proc = log[i + 1].proc
    /\ Cardinality({ j \in 1..(i - 1) : log[j].ev = "start" })
          = Cardinality({ j \in 1..(i - 1) : log[j].ev = "return" })

\* The first n signs of the device ran one after the other, each returning
\* before the next started.
Sequential(log, n) ==
    /\ 2 * n <= Len(log)
    /\ \A k \in 1..n : RanAlone(log, 2 * k - 1)

\* C6: when the first n signs of a new device are strictly sequential and
\* successful, the counter after the n-th is n, and the i-th signedData
\* (counting from 0) carries the counter i.
C6_SequentialCounters ==
    \A id \in DOMAIN devices :
        LET log == signLog[id] IN
        \A n \in 1..(Len(log) \div 2) :
            (Sequential(log, n) /\ \A k \in 1..n : log[2 * k].status = 200)
                => /\ log[2 * n].chain[1] = n
                   /\ (Len(log) = 2 * n
                          => heap[devices[id]].SignatureCounter = n)
                   /\ \A k \in 1..n :
                          EmbeddedCounter(log[2 * k].signedData) = k - 1

\* Two sequential successful signs of a new device have returned.
C6_Witness ==
    \E id \in DOMAIN devices :
        /\ Len(signLog[id]) = 4
        /\ Sequential(signLog[id], 2)
        /\ signLog[id][2].status = 200 /\ signLog[id][4].status = 200
        /\ heap[devices[id]].SignatureCounter = 2

\* C7: when a successful sign that ran alone is followed by a successful
\* sign that started after it returned, with no other sign in between, the
\* second signedData ends with the signature the first returned.
C7_NextEmbedsPrevious ==
    \A id \in DOMAIN devices :
        LET log == signLog[id] IN
        \A i \in 1..(Len(log) - 3) :
            ( /\ RanAlone(log, i) /\ RanAlone(log, i + 2)
              /\ log[i + 1].status = 200 /\ log[i + 3].status = 200 )
                => TrailingSegment(log[i + 3].signedData) = log[i + 1].signature

\* A successful sign has followed a successful sign, and carries the
\* signature of the first.
C7_Witness ==
    \E id \in DOMAIN devices :
        LET log == signLog[id] IN
        /\ Len(log) >= 4
        /\ RanAlone(log, 1) /\ RanAlone(log, 3)
        /\ log[2].status = 200 /\ log[4].status = 200
        /\ log[2].signature # EmptyString
        /\ TrailingSegment(log[4].signedData) = log[2].signature


\* "WA==", the base64 of the id "X".
Base64OfX == <<87, 65, 61, 61>>

\* "0_a_b_WA==": the secured string of the data "a_b" on a device "X" with
\* counter 0 and no last signature.
FirstSecuredDataOfX == <<48, 95, 97, 95, 98, 95>> \o Base64OfX

\* The string the step GetSecuredDataToSign_Return of p hands back: to
\* SignTransaction, or to the caller of the method.
SecuredDataReturned(p) ==
    IF req[p].op = "SignTransaction" THEN req'[p].securedData ELSE out'.data

\* C8: GetSecuredDataToSign(data) on a device with counter c and last
\* signature l returns c in decimal without leading zeros, "_", data, "_",
\* and l, or the base64 of the device id when l is empty; on a device "X"
\* with counter 0 and no last signature, "0_<data>_WA==".
C8_SecuredDataFormat ==
    [][ \A p \in Procs :
          GetSecuredDataToSign_Return(p) =>
            LET d == heap[req[p].device]
                s == SecuredDataReturned(p)
                c == CounterSegment(s)
                l == IF d.LastSignature = EmptyString
                     THEN Base64Encode(d.ID) ELSE d.LastSignature
            IN  /\ ParseNat(c) = d.SignatureCounter
                /\ (Len(c) = 1 \/ c[1] # DigitChar(0))
                /\ DataSegment(s) = req[p].data
                /\ TrailingSegment(s) = l
                /\ Len(s) = Len(c) + 1 + Len(req[p].data) + 1 + Len(l)
                /\ (d.LastSignature = EmptyString /\ d.ID = <<88>>)
                      => TrailingSegment(s) = Base64OfX
                /\ ( /\ d.LastSignature = EmptyString /\ d.ID = <<88>>
                     /\ d.SignatureCounter = 0 /\ req[p].data = <<97, 95, 98>> )
                      => s = FirstSecuredDataOfX
      ]_vars

\* GetSecuredDataToSign("a_b") has returned "0_a_b_WA==" on a device "X"
\* with counter 0 and no last signature.
C8_Witness ==
    /\ out.proc # 0 /\ out.data = FirstSecuredDataOfX
    /\ heap[1].ID = <<88>> /\ heap[1].SignatureCounter = 0
    /\ heap[1].LastSignature = EmptyString

\* The error SignTransaction reports when Signer.Sign fails.
SigningFailure == "Failed to sign data: " \o LibraryError

\* The errors SignTransaction reports when the private key is not of the
\* type of the device's algorithm.
KeyErrors ==
    { "Failed to get RSA private key: private key is not of type *rsa.PrivateKey",
      "Failed to get ECDSA private key: private key is not of type *ecdsa.PrivateKey" }

\* C9: a sign that ran alone and whose signer failed reported an error
\* (status 500, no signature) and left the counter and the last signature
\* of the device as they were when it started; the sign that follows it,
\* with no other sign in between, builds its secured string from the same
\* counter and the same predecessor.
C9_SignerFailureLeavesChain ==
    \A id \in DOMAIN devices :
        LET log == signLog[id] IN
        \A i \in 1..(Len(log) - 1) :
            (RanAlone(log, i) /\ log[i + 1].error = SigningFailure)
                => /\ log[i + 1].status = 500
                   /\ log[i + 1].signature = EmptyString
                   /\ log[i + 1].chain = log[i].chain
                   /\ (Len(log) = i + 1 => Chain(id) = log[i].chain)
                   /\ RanAlone(log, i + 2) =>
                        /\ CounterSegment(log[i + 3].signedData)
                              = CounterSegment(log[i + 1].signedData)
                        /\ TrailingSegment(log[i + 3].signedData)
                              = TrailingSegment(log[i + 1].signedData)

\* A sign whose signer failed was retried, and the retry succeeded.
C9_Witness ==
    \E id \in DOMAIN devices :
        LET log == signLog[id] IN
        /\ Len(log) = 4
        /\ RanAlone(log, 1) /\ RanAlone(log, 3)
        /\ log[2].status = 500 /\ log[2].error = SigningFailure
        /\ log[4].status = 200

\* The private key of the device is not of the type of its algorithm.
KeyTypeMismatch(d) ==
    \/ d.Algorithm = AlgorithmRSA /\ d.PrivateKey # RSAPrivate
    \/ d.Algorithm = AlgorithmECDSA /\ d.PrivateKey # ECDSAPrivate

\* C10: on a device whose private key is not of the type of its algorithm,
\* every sign that returned reported a key error (status 500, no
\* signature), and no state was mutated: the device has its counter 0 and
\* no last signature, no commit was made, and the store holds the device
\* under its id.
C10_KeyMismatchMutatesNothing ==
    \A d \in DOMAIN heap :
        KeyTypeMismatch(heap[d]) =>
            /\ heap[d].SignatureCounter = 0
            /\ heap[d].LastSignature = EmptyString
            /\ commits[d] = 0
            /\ heap[d].ID \in DOMAIN devices /\ devices[heap[d].ID] = d
            /\ \A i \in DOMAIN signLog[heap[d].ID] :
                  LET e == signLog[heap[d].ID][i] IN
                  /\ e.chain = << 0, EmptyString >>
                  /\ e.ev = "return" =>
                        /\ e.status = 500
                        /\ e.error \in KeyErrors
                        /\ e.signature = EmptyString

\* Two signs on a device with algorithm RSA and a key of another type (or
\* none) have returned their key errors.
C10_Witness ==
    \E d \in DOMAIN heap :
        /\ KeyTypeMismatch(heap[d]) /\ heap[d].Algorithm = AlgorithmRSA
        /\ Len(signLog[heap[d].ID]) = 4
        /\ signLog[heap[d].ID][4].error \in KeyErrors


(***************************************************************************)
(* Properties of the chain state and of the locks.                         *)
(***************************************************************************)
\* The next step of goroutine p reads the SignatureCounter of device d to
\* build a response, and p does not hold the lock of d.
ReadsCounterUnlocked(p, d) ==
    /\ mu[d] # p
    /\ \/ /\ pc[p] \in { "CreateDevice_response", "GetDevice_response" }
          /\ req[p].device = d
       \/ /\ pc[p] = "ListDevices_response"
          /\ req[p].list[Len(req[p].response) + 1] = d

\* Goroutine p is inside IncrementCounter on device d: it holds the lock
\* and its next step writes the chain state.
WritesChainState(p, d) ==
    pc[p] = "IncrementCounter_store" /\ req[p].device = d

\* C11: the chain state of a device is only read or written under the
\* device's lock: in no state is one goroutine about to write the chain
\* state of a device while another is about to read it without the lock.
C11_ChainStateUnderLock ==
    \A d \in DOMAIN heap : \A p, q \in Procs :
        ~(WritesChainState(p, d) /\ ReadsCounterUnlocked(q, d))

\* C12: on every device of the server, LastSignature is empty exactly
\* when SignatureCounter is 0.
C12_EmptyIffZero ==
    \A d \in DOMAIN heap :
        (heap[d].LastSignature = EmptyString) <=> (heap[d].SignatureCounter = 0)

\* A device has a counter above 0 and a last signature while another
\* device still has counter 0 and none.
C12_Witness ==
    \E d, e \in DOMAIN heap :
        /\ heap[d].SignatureCounter > 0 /\ heap[d].LastSignature # EmptyString
        /\ heap[e].SignatureCounter = 0 /\ heap[e].LastSignature = EmptyString

\* C13: on every device with a counter above 0, LastSignature is the
\* base64 signature that the last completed IncrementCounter was given.
C13_LastSignatureIsLastCommit ==
    \A d \in DOMAIN heap :
        heap[d].SignatureCounter > 0 =>
            /\ heap[d].LastSignature = lastCommit[d]
            /\ lastCommit[d] \in EncodedSignatures

\* Two overlapping signs of one device have committed different
\* signatures, and the device holds the one committed last.
C13_Witness ==
    \E d \in DOMAIN heap : \E p, q \in Procs :
        /\ p # q
        /\ pc[p] = "Update" /\ pc[q] = "Update"
        /\ req[p].device = d /\ req[q].device = d
        /\ req[p].signature # req[q].signature
        /\ heap[d].LastSignature = req[q].signature
        /\ lastCommit[d] = req[q].signature

\* C14: in every step the SignatureCounter of every device stays or grows
\* by exactly 1, and it grows only in the step that ends the
\* IncrementCounter of a SignTransaction whose signer succeeded; the same
\* holds for the counter reachable for an id through the repository.
C14_CounterStepsByOne ==
    [][ /\ \A d \in DOMAIN heap :
             \/ heap'[d].SignatureCounter = heap[d].SignatureCounter
             \/ /\ heap'[d].SignatureCounter = heap[d].SignatureCounter + 1
                /\ \E p \in Procs :
                      /\ IncrementCounter_Store(p)
                      /\ req[p].device = d
                      /\ req[p].op = "SignTransaction"
                      /\ req[p].signature \in EncodedSignatures
        /\ \A id \in DOMAIN devices :
             Chain(id)'[1] \in { Chain(id)[1], Chain(id)[1] + 1 }
      ]_vars

\* A device has gone from counter 1 to counter 2: its second sign has
\* committed and has not yet returned.
C14_Witness ==
    \E d \in DOMAIN heap : \E p \in Procs :
        /\ heap[d].SignatureCounter = 2 /\ commits[d] = 2
        /\ pc[p] = "Update" /\ req[p].device = d
        /\ \A q \in Procs \ {p} : pc[q] = "idle"


\* C16: a device lock is held only by a goroutine that is inside
\* GetSecuredDataToSign or IncrementCounter on that device: a
\* SignTransaction that has returned, on whatever path, holds no lock, and
\* neither does one that stands between the two calls or after them.
C16_NoLockLeftHeld ==
    \A d \in DOMAIN mu :
        mu[d] # 0 =>
            /\ pc[mu[d]] \in { "GetSecuredDataToSign_return",
                               "IncrementCounter_store" }
            /\ req[mu[d]].device = d

\* A sign that ran alone has returned an error, and the next sign of the
\* device has taken the device's lock.
C16_Witness ==
    \E id \in DOMAIN devices :
        LET log == signLog[id] IN
        /\ Len(log) = 3
        /\ RanAlone(log, 1) /\ log[2].status = 500
        /\ log[3].ev = "start"
        /\ mu[devices[id]] = log[3].proc

\* C17: the repository's lock is free between any two steps (it is held
\* for one access to the map only); a goroutine that is about to call the
\* repository holds no device lock, and its call can proceed whatever the
\* device locks are; and a device lock changes only in a step of a
\* goroutine inside GetSecuredDataToSign or IncrementCounter on that
\* device, never in a call of the repository.
C17_StoreIgnoresDeviceLocks ==
    /\ [] ( /\ repoMu = [w |-> 0, r |-> {}]
            /\ \A p \in Procs :
                  /\ pc[p] \in { "idle", "Update" }
                        => \A d \in DOMAIN mu : mu[d] # p
                  /\ pc[p] = "Update" => ENABLED SignTransaction_Update(p)
                  /\ (Idle(p) /\ budget > 0)
                        => /\ ENABLED CreateDevice_Create(p)
                           /\ ENABLED SetupCreate(p)
                           /\ ENABLED GetDevice_Get(p)
                           /\ ENABLED ListDevices_List(p)
                           /\ ENABLED SignTransaction_Get(p) )
    /\ [][ \A d \in DOMAIN mu :
              mu'[d] # mu[d] =>
                 \E p \in Procs :
                    /\ pc[p] \in { "GetSecuredDataToSign",
                                   "GetSecuredDataToSign_return",
                                   "IncrementCounter", "IncrementCounter_store" }
                    /\ pc'[p] # pc[p]
                    /\ req[p].device = d ]_vars

\* A sign is about to call repository.Update on a device whose lock
\* another sign holds.
C17_Witness ==
    \E p, q \in Procs :
        /\ p # q
        /\ pc[q] = "Update"
        /\ mu[req[q].device] = p

\* C19: a Create, through CreateDevice or directly, leaves every stored
\* record as it is (the same Device under the id, with the same fields);
\* Create reports "device already exists" for every stored id, and
\* CreateDevice answers 409 with the store unchanged and never succeeds
\* with an id that is stored.
C19_DuplicateCreateKeepsRecord ==
    [][ \A p \in Procs :
          (CreateDevice_Create(p) \/ SetupCreate(p)) =>
            /\ \A id \in DOMAIN devices :
                  /\ RepoCreateErr(id) = "device already exists"
                  /\ id \in DOMAIN devices'
                  /\ devices'[id] = devices[id]
                  /\ heap'[devices[id]] = heap[devices[id]]
            /\ out'.status = 409 =>
                  /\ out'.error = "Device with this ID already exists"
                  /\ store' = store
            /\ pc'[p] = "CreateDevice_response"
                  => req'[p].id \notin DOMAIN devices
      ]_vars

\* CreateDevice has answered 409 for the id of a device that has signed:
\* the stored record still carries its counter and its last signature.
C19_Witness ==
    /\ out.status = 409
    /\ \E id \in DOMAIN devices :
          /\ heap[devices[id]].SignatureCounter = 1
          /\ heap[devices[id]].LastSignature # EmptyString


\* C15: the counter and the last signature reachable for a stored id
\* through the repository change only in the step that ends an
\* IncrementCounter on the device stored for the id: no operation of the
\* repository changes them.
C15_StoreKeepsChainState ==
    [][ \A id \in DOMAIN devices :
          \/ Chain(id)' = Chain(id)
          \/ \E p \in Procs :
                IncrementCounter_Store(p) /\ req[p].device = devices[id]
      ]_vars

\* A step of the repository.
RepositoryCall(p) ==
    \/ StoreCreate(p) \/ StoreGet(p) \/ StoreList(p)
    \/ StoreUpdate_Got(p) \/ StoreUpdate(p) \/ StoreIncrement_Got(p)

\* C15 as amended: no operation of the repository writes a field of a
\* Device, and the chain state reachable for a stored id changes in a step
\* of the repository only when Update is given another Device with that
\* id, which then is the Device stored for the id; Create, Get, List and an
\* Update given the Device that Get returned leave it as it is.
C15_StoreKeepsDeviceFields ==
    [][ \A p \in Procs :
          RepositoryCall(p) =>
             /\ \A d \in DOMAIN heap : heap'[d] = heap[d]
             /\ \A id \in DOMAIN devices :
                   Chain(id)' # Chain(id) =>
                      /\ StoreUpdate(p)
                      /\ heap[req[p].device].ID = id
                      /\ req[p].device # devices[id]
                      /\ devices'[id] = req[p].device
      ]_vars

\* Update has returned without error for the Device that is stored for
\* its id and that has a committed signature: the chain state reachable
\* for the id is the one the commit left.
C15_Witness ==
    /\ out.proc # 0 /\ out.error = ""
    /\ DOMAIN out.data = { "op", "id", "device" }
    /\ out.data.op = "Update"
    /\ out.data.id \in DOMAIN devices
    /\ devices[out.data.id] = out.data.device
    /\ commits[out.data.device] = 1
    /\ Chain(out.data.id) = << counter0[out.data.device] + 1,
                               lastCommit[out.data.device] >>

\* C20: Get of an id that is not stored returns "device not found" and no
\* device, and returns the stored device otherwise; Update of a Device
\* whose id is not stored returns "device not found" and leaves the map as
\* it is, its set of ids included.
C20_NotFound ==
    [][ \A p \in Procs :
          /\ StoreGet(p) =>
                /\ store' = store
                /\ out'.data.id \notin DOMAIN devices
                      => /\ out'.error = "device not found"
                         /\ out'.data.device = 0
                /\ out'.data.id \in DOMAIN devices
                      => /\ out'.error = ""
                         /\ out'.data.device = devices[out'.data.id]
          /\ (StoreUpdate(p) /\ heap[req[p].device].ID \notin DOMAIN devices)
                => /\ out'.error = "device not found"
                   /\ devices' = devices
                   /\ DOMAIN devices' = DOMAIN devices
      ]_vars

\* Update of a Device "Y" has returned "device not found" while "X" is
\* the only stored id.
C20_Witness ==
    /\ out.proc # 0 /\ out.error = "device not found"
    /\ out.data.op = "Update" /\ out.data.id = <<89>>
    /\ DOMAIN devices = { <<88>> }


\* The next step of the SignTransaction that q runs.
SignStep(q) ==
    \/ GetSecuredDataToSign_LastSig(q)
    \/ GetSecuredDataToSign_Return(q)
    \/ SignTransaction_Sign(q)
    \/ IncrementCounter_Load(q)
    \/ IncrementCounter_Store(q)
    \/ SignTransaction_Update(q)

\* C18: while a SignTransaction of p on one device is between its read
\* and its commit, p holds no lock of the repository and no lock of another
\* device, and every SignTransaction in flight on another device whose
\* device lock is free or its own can take its next step: it never waits
\* for p.
C18_SignsOnOtherDevicesProceed ==
    \A p \in Procs :
       BetweenReadAndCommit(p) =>
          /\ repoMu.w # p /\ p \notin repoMu.r
          /\ \A d \in DOMAIN mu : mu[d] = p => d = req[p].device
          /\ \A q \in Procs :
                ( /\ req[q].op = "SignTransaction"
                  /\ req[q].device # req[p].device
                  /\ mu[req[q].device] \in {0, q} )
                => ENABLED SignStep(q)

\* A sign on the first device holds its lock in IncrementCounter while a
\* sign on the second device holds its own lock in GetSecuredDataToSign.
C18_Witness ==
    \E p, q \in Procs :
       /\ BetweenReadAndCommit(p) /\ pc[p] = "IncrementCounter_store"
       /\ req[p].device = 1 /\ mu[1] = p
       /\ req[q].op = "SignTransaction" /\ pc[q] = "GetSecuredDataToSign_return"
       /\ req[q].device = 2 /\ mu[2] = q


\* C21: GetDevice for an id that is not stored answers 404 "Device not
\* found", and so does SignTransaction with data for such an id; the step
\* leaves the store, every Device, every lock and the count of commits as
\* they are, and no SignTransaction is started on the id.
C21_UnknownIDNotFound ==
    [][ \A p \in { q \in Procs : Idle(q) /\ budget' < budget } :
        \A id \in KnownIDs \ DOMAIN devices :
          ( \/ GetDevice_GetID(p, id)
            \/ \E data \in Datas : SignTransaction_GetID(p, id, data) )
          => /\ out' = [ proc |-> p, status |-> 404,
                         error |-> "Device not found", data |-> <<>> ]
             /\ pc'[p] = "idle"
             /\ store' = store /\ mu' = mu
             /\ DOMAIN devices' = DOMAIN devices
             /\ history' = history
      ]_vars

\* A request has been answered 404 although a device that has signed is
\* stored: the request named another id, which is not stored.
C21_Witness ==
    /\ out.proc # 0 /\ out.status = 404 /\ out.error = "Device not found"
    /\ DOMAIN devices = { GeneratedID(1) }
    /\ heap[devices[GeneratedID(1)]].SignatureCounter = 1
    /\ commits[devices[GeneratedID(1)]] = 1


\* C22: a device has the chain state of NewDevice, counter 0 and no last
\* signature, when it is stored and until its first commit, and the
\* response of the CreateDevice that stored it reports signature_counter 0.
C22_CreatedWithZeroChain ==
    /\ \A d \in DOMAIN heap :
          /\ counter0[d] = 0
          /\ commits[d] = 0 =>
                /\ heap[d].SignatureCounter = 0
                /\ heap[d].LastSignature = EmptyString
    /\ out.status = 201 => out.data.signature_counter = 0


\* The fields of a Device that are set when it is created.
Identity(d) ==
    << d.ID, d.Algorithm, d.Label, d.PublicKey, d.PrivateKey >>

\* C23: every step of the server leaves every stored id stored, with the
\* same id, algorithm, label, public key and private key, both in the
\* Device and in what the repository returns for the id; a device is
\* stored under its own id.
C23_IdentityImmutable ==
    /\ [] ( \A id \in DOMAIN devices : heap[devices[id]].ID = id )
    /\ [][ /\ \A d \in DOMAIN heap : Identity(heap'[d]) = Identity(heap[d])
           /\ \A id \in DOMAIN devices :
                 /\ id \in DOMAIN devices'
                 /\ Identity(heap'[devices'[id]]) = Identity(heap[devices[id]])
         ]_vars

\* GetDevice is about to answer for a device with generated keys that has
\* signed.
C23_Witness ==
    \E p \in Procs :
       /\ pc[p] = "GetDevice_response"
       /\ commits[req[p].device] = 1
       /\ heap[req[p].device].SignatureCounter = 1
       /\ heap[req[p].device].PrivateKey # NilKey


\* C24: what List returns has as many entries as there are stored ids
\* (none when nothing was created), and for every stored id exactly one
\* entry, the Device stored for the id: no duplicate, and nothing of a
\* Create that failed.
C24_ListIsTheStoredSet ==
    ( /\ DOMAIN out.data = { "op", "id", "device" }
      /\ out.data.op = "List" )
    => LET order == out.data.device IN
       /\ out.error = ""
       /\ Len(order) = Cardinality(DOMAIN devices)
       /\ \A id \in DOMAIN devices :
             Cardinality({ i \in 1..Len(order) : order[i] = devices[id] }) = 1
       /\ \A i \in 1..Len(order) :
             /\ heap[order[i]].ID \in DOMAIN devices
             /\ devices[heap[order[i]].ID] = order[i]

\* List has returned two entries: two devices were created.
C24_Witness ==
    /\ DOMAIN out.data = { "op", "id", "device" }
    /\ out.data.op = "List"
    /\ Len(out.data.device) = 2
    /\ out.data.device[1] # out.data.device[2]


\* C25: CreateDevice with an algorithm that is neither "RSA" nor "ECDSA",
\* a missing one included, answers 400 and returns before an id or a key
\* pair is generated: the step leaves the store, every Device, the locks
\* and the count of generated ids as they are.
C25_UnsupportedAlgorithmRejected ==
    [][ \A p \in { q \in Procs : Idle(q) /\ budget' < budget } :
        \A id \in RequestIDs \cup {EmptyString}, label \in Labels :
        \A alg \in RequestAlgorithms \ { AlgorithmRSA, AlgorithmECDSA } :
          CreateDevice_CreateReq(p, id, alg, label)
          => /\ out'.proc = p /\ out'.status = 400
             /\ out'.error = ( IF alg = ""
                               THEN "Invalid request body: " \o LibraryError
                               ELSE "Algorithm must be either 'RSA' or 'ECDSA'" )
             /\ out'.data = <<>>
             /\ pc'[p] = "idle"
             /\ store' = store /\ locks' = locks
             /\ DOMAIN devices' = DOMAIN devices
             /\ nuuid' = nuuid
             /\ history' = history
      ]_vars

\* CreateDevice has rejected an algorithm while a device is stored: the
\* store holds that device only, and no id was generated.
C25_Witness ==
    /\ out.proc # 0 /\ out.status = 400
    /\ out.error = "Algorithm must be either 'RSA' or 'ECDSA'"
    /\ DOMAIN devices = RequestIDs
    /\ Len(heap) = 1 /\ nuuid = 0


\* C26: a step of GetSecuredDataToSign leaves every field of every Device
\* and the repository as they are, and the string it returns is the one
\* that the fields of the device after the call and the data determine:
\* calls without a commit between them return the same string for the same
\* data.
C26_GetSecuredDataToSignReadsOnly ==
    [][ \A p \in Procs :
          ( /\ pc[p] \in { "GetSecuredDataToSign", "GetSecuredDataToSign_return" }
            /\ pc'[p] # pc[p] )
          => /\ store' = store
             /\ commits' = commits /\ lastCommit' = lastCommit
             /\ ( pc[p] = "GetSecuredDataToSign_return"
                  /\ req[p].op = "GetSecuredDataToSign" )
                => LET d == heap'[req[p].device] IN
                   out'.data = SecuredDataToSign(d.ID, d.SignatureCounter,
                                                 d.LastSignature, req[p].data)
      ]_vars

\* Two calls of GetSecuredDataToSign have returned and no IncrementCounter
\* has been called: the device is as it was built.
C26_Witness ==
    /\ budget = MaxCalls - 2
    /\ \A p \in Procs : pc[p] = "idle"
    /\ out.proc # 0 /\ out.data # <<>>
    /\ commits[1] = 0
    /\ heap[1].SignatureCounter = counter0[1]
    /\ heap[1].LastSignature = lastCommit[1]


\* C27: SignTransaction with a body without data answers 400 "Invalid
\* request body" for every id, stored or not, and the step changes no
\* Device, nothing in the repository, no lock and no history of commits.
C27_BodyValidatedBeforeLookup ==
    [][ \A p \in { q \in Procs : Idle(q) /\ budget' < budget } :
        \A id \in KnownIDs :
          SignTransaction_GetID(p, id, EmptyString)
          => /\ out' = [ proc |-> p, status |-> 400,
                         error |-> "Invalid request body: " \o LibraryError,
                         data |-> <<>> ]
             /\ pc'[p] = "idle"
             /\ store' = store /\ locks' = locks
             /\ history' = history
      ]_vars

\* A SignTransaction has been answered 400 on a server that knows an id
\* that is not stored and stores a device that has signed.
C27_Witness ==
    /\ out.proc # 0 /\ out.status = 400
    /\ KnownIDs \ DOMAIN devices # {}
    /\ \E id \in DOMAIN devices : commits[devices[id]] = 1


\* The algorithm, the key field and the dynamic type that a typed key
\* accessor expects.
AccessorAlgorithm(accessor) ==
    IF accessor \in { "GetRSAPrivateKey", "GetRSAPublicKey" }
    THEN AlgorithmRSA ELSE AlgorithmECDSA

AccessorField(accessor, d) ==
    IF accessor \in { "GetRSAPrivateKey", "GetECDSAPrivateKey" }
    THEN d.PrivateKey ELSE d.PublicKey

AccessorType(accessor) ==
    CASE accessor = "GetRSAPrivateKey" -> RSAPrivate
      [] accessor = "GetECDSAPrivateKey" -> ECDSAPrivate
      [] accessor = "GetRSAPublicKey" -> RSAPublic
      [] accessor = "GetECDSAPublicKey" -> ECDSAPublic

\* C28: a typed key accessor returns no error exactly when the algorithm
\* of the device is the accessor's and the key field holds a key of the
\* accessor's type; it then returns that key, and nil with an error
\* otherwise; no call changes the Device.
C28_TypedAccessors ==
    /\ [] ( out.proc # 0 =>
              LET d == heap[1]
                  a == out.data.accessor
              IN  /\ out.error = ""
                       <=> ( /\ d.Algorithm = AccessorAlgorithm(a)
                             /\ AccessorField(a, d) = AccessorType(a) )
                  /\ out.error = "" => out.data.key = AccessorField(a, d)
                  /\ out.error # "" => out.data.key = NilKey )
    /\ [][ heap' = heap ]_vars

\* GetECDSAPublicKey has returned an error and no key on a device whose
\* public key is an ECDSA key and whose algorithm is RSA.
C28_Witness ==
    /\ out.proc # 0 /\ out.data.accessor = "GetECDSAPublicKey"
    /\ out.error = "device algorithm is not ECDSA"
    /\ out.data.key = NilKey
    /\ heap[1].Algorithm = AlgorithmRSA /\ heap[1].PublicKey = ECDSAPublic


\* C29: of the Create calls for one id, however they interleave, at most
\* one stores its Device, and that Device stays the one stored for the id;
\* at most one CreateDevice for the id is on its way to a 201 response, it
\* is the one whose Device is stored, and a 409 is answered only when a
\* device with a requested id is stored.
C29_OneCreateWins ==
    /\ \A d \in DOMAIN heap :
          /\ \A e \in DOMAIN heap : heap[d].ID = heap[e].ID => d = e
          /\ heap[d].ID \in DOMAIN devices
          /\ devices[heap[d].ID] = d
    /\ \A id \in DOMAIN devices : heap[devices[id]].ID = id
    /\ \A p, q \in Procs :
          ( /\ pc[p] = "CreateDevice_response"
            /\ pc[q] = "CreateDevice_response"
            /\ req[p].id = req[q].id ) => p = q
    /\ \A p \in Procs :
          pc[p] = "CreateDevice_response"
             => /\ req[p].id \in DOMAIN devices
                /\ devices[req[p].id] = req[p].device
    /\ out.status = 409 => \E id \in RequestIDs : id \in DOMAIN devices

\* A CreateDevice for "X" has been answered 409 while the CreateDevice
\* that stored "X" has not yet written its response.
C29_Witness ==
    /\ out.status = 409
    /\ \E p \in Procs :
          /\ pc[p] = "CreateDevice_response"
          /\ req[p].id \in RequestIDs
          /\ out.proc # p


\* The goroutines whose SignTransaction has committed on Device d and has
\* not yet called repository.Update.
Committed(d) ==
    { p \in Procs : pc[p] = "Update" /\ req[p].device = d }

\* C30: the Update that follows a commit finds the device stored, under
\* its id, so it returns no error: every commit on a stored device is
\* either followed by a 200 response that carries a signature and the
\* signed data, or its SignTransaction is about to call Update; no
\* response reports "Failed to update device".
C30_NoErrorAfterCommit ==
    /\ \A p \in Procs :
          pc[p] = "Update"
             => /\ RepoUpdateErr(heap[req[p].device].ID) = ""
                /\ devices[heap[req[p].device].ID] = req[p].device
                /\ req[p].signature # EmptyString
                /\ req[p].securedData # EmptyString
    /\ \A id \in DOMAIN devices :
          /\ commits[devices[id]]
                = Len(Returned(id)) + Cardinality(Committed(devices[id]))
          /\ \A i \in 1..Len(signLog[id]) :
                LET e == signLog[id][i] IN
                e.ev = "return" =>
                   /\ e.error # "Failed to update device: device not found"
                   /\ e.status = 200 => /\ e.signature # EmptyString
                                        /\ e.signedData # EmptyString
    /\ out.error # "Failed to update device: device not found"

\* Two signs of one device have committed and both have been answered 200
\* with their signatures.
C30_Witness ==
    \E id \in DOMAIN devices :
       /\ commits[devices[id]] = 2
       /\ Len(Returned(id)) = 2
       /\ Returned(id)[1].signature # EmptyString
       /\ Returned(id)[2].signature # EmptyString
       /\ Committed(devices[id]) = {}


\* The goroutines whose SignTransaction on id has committed and has not
\* yet called repository.Update.
CommittedOn(id) ==
    { p \in Procs : pc[p] = "Update" /\ req[p].id = id }

\* C31: every SignTransaction in flight on an id works on the Device that
\* is stored for the id, so what the repository returns for the id is the
\* state that the commits left: the counter counts every commit of every
\* sign on the id, returned or about to call Update, and the last
\* signature is the one of the latest commit, whatever the order in which
\* the signs call Update.
C31_UpdateKeepsLatestCommit ==
    \A id \in DOMAIN devices :
       /\ \A p \in Procs :
             (req[p].op = "SignTransaction" /\ req[p].id = id)
                => req[p].device = devices[id]
       /\ Chain(id) = << counter0[devices[id]] + commits[devices[id]],
                         lastCommit[devices[id]] >>
       /\ Chain(id)[1] = Len(Returned(id)) + Cardinality(CommittedOn(id))

\* Two overlapping signs of one id have both returned, and the one that
\* called Update last had committed first: the repository returns the
\* signature of the other one.
C31_Witness ==
    \E id \in DOMAIN devices :
       /\ Len(Returned(id)) = 2
       /\ CommittedOn(id) = {}
       /\ signLog[id][1].ev = "start" /\ signLog[id][2].ev = "start"
       /\ Chain(id)[1] = 2
       /\ Chain(id)[2] = Returned(id)[1].signature
       /\ Chain(id)[2] # Returned(id)[2].signature


\* The predecessor that the secured data of Device d embeds.
Predecessor(d) ==
    IF d.LastSignature = EmptyString THEN Base64Encode(d.ID)
    ELSE d.LastSignature

\* C32: GetSecuredDataToSign holds the lock of the device from its read of
\* LastSignature to its read of SignatureCounter, so the last signature it
\* has read is still the one of the device when it reads the counter: the
\* secured data it returns embeds the counter and the predecessor that the
\* device holds at that instant, a SignTransaction keeps that string up to
\* its response, and a returned string embeds counter 0 exactly when it
\* embeds the base64 of the id.
C32_CounterAndPredecessorOfOneInstant ==
    /\ [] ( /\ \A p \in Procs :
                 pc[p] = "GetSecuredDataToSign_return"
                    => /\ mu[req[p].device] = p
                       /\ req[p].lastSig = heap[req[p].device].LastSignature
            /\ \A id \in DOMAIN devices :
                 \A i \in 1..Len(Returned(id)) :
                    LET s == Returned(id)[i].signedData IN
                    /\ EmbeddedCounter(s) = 0
                          <=> TrailingSegment(s) = Base64Encode(id)
                    /\ EmbeddedCounter(s) > 0
                          => TrailingSegment(s) \in EncodedSignatures )
    /\ [][ \A p \in Procs :
             /\ ( pc[p] = "GetSecuredDataToSign_return" /\ pc'[p] = "Sign" )
                   => LET d == heap[req[p].device]
                          s == req'[p].securedData
                      IN  /\ EmbeddedCounter(s) = d.SignatureCounter
                          /\ TrailingSegment(s) = Predecessor(d)
                          /\ heap' = heap
             /\ ( pc[p] \in { "Sign", "IncrementCounter",
                              "IncrementCounter_store", "Update" }
                  /\ pc'[p] # "idle" )
                   => req'[p].securedData = req[p].securedData
         ]_vars

\* One sign holds the lock of a device between its two reads while another
\* sign of the same device is waiting to commit.
C32_Witness ==
    \E p, q \in Procs :
       /\ pc[p] = "GetSecuredDataToSign_return"
       /\ pc[q] = "IncrementCounter"
       /\ req[p].device = req[q].device
       /\ mu[req[p].device] = p


\* C33: no step takes an id out of the map, and every stored Device is
\* stored under its own ID; a Create that returns no error leaves its id
\* stored; Get of a stored id returns its Device without error, Update of
\* a Device whose id is stored returns no error and stores that Device
\* under the id, and every List holds the Device of every stored id:
\* hence, once Create(id) has succeeded, every later Get(id) and
\* Update(id) succeeds and every later List contains id.
C33_StoredIDsOnlyGrow ==
    /\ [] ( \A id \in DOMAIN devices : heap[devices[id]].ID = id )
    /\ [][ /\ \A id \in DOMAIN devices : id \in DOMAIN devices'
           /\ \A p \in Procs :
                /\ ( StoreCreate(p) /\ out'.error = "" )
                      => /\ out'.data.id \in DOMAIN devices'
                         /\ out'.data.id \notin DOMAIN devices
                /\ ( StoreGet(p) /\ out'.data.id \in DOMAIN devices )
                      => /\ out'.error = ""
                         /\ heap[out'.data.device].ID = out'.data.id
                /\ StoreList(p)
                      => \A id \in DOMAIN devices :
                            \E i \in 1..Len(out'.data.device) :
                               heap[out'.data.device[i]].ID = id
                /\ ( StoreUpdate(p) /\ heap[req[p].device].ID \in DOMAIN devices )
                      => /\ out'.error = ""
                         /\ devices'[heap[req[p].device].ID] = req[p].device
                         /\ DOMAIN devices' = DOMAIN devices
         ]_vars

\* "X" and "Y" were created, in either order, and a later Get of "X" has
\* returned its Device.
C33_Witness ==
    /\ DOMAIN devices = { <<88>>, <<89>> }
    /\ out.proc # 0 /\ out.error = ""
    /\ DOMAIN out.data = { "op", "id", "device" }
    /\ out.data.op = "Get" /\ out.data.id = <<88>>
    /\ out.data.device = devices[<<88>>]


\* C34: the lock of the repository is free between the steps of the
\* handlers, so no request waits for it; a goroutine with an operation in
\* flight can take its next step, or waits for the lock of a device whose
\* holder can take its next step; and under fair scheduling, whenever
\* operations are in flight, a state follows in which every goroutine has
\* returned its response: every operation in flight completes.
C34_EveryOperationReturns ==
    /\ [] ( /\ repoMu.w = 0 /\ repoMu.r = {}
            /\ \A p \in Procs :
                 pc[p] # "idle"
                    => \/ ENABLED Continue(p)
                       \/ /\ req[p].device \in DOMAIN mu
                          /\ \E q \in Procs \ {p} :
                                /\ mu[req[p].device] = q
                                /\ ENABLED Continue(q) )
    /\ ( \E p \in Procs : pc[p] # "idle" )
          ~> ( \A p \in Procs : pc[p] = "idle" )

\* Every request the server was sent has been answered, two
\* SignTransaction of one device among them that were in flight together.
C34_Witness ==
    /\ budget = 0
    /\ \A p \in Procs : pc[p] = "idle"
    /\ \E id \in DOMAIN devices :
          /\ Len(signLog[id]) = 4
          /\ signLog[id][1].ev = "start" /\ signLog[id][2].ev = "start"
          /\ signLog[id][3].status = 200 /\ signLog[id][4].status = 200

=============================================================================
